---- MODULE Spec2Model ----
(***************************************************************************)
(* A model of the build-script API of craftr (src/src/craftr/api):         *)
(* Targets with public/private Dependency edges, the transitive           *)
(* dependency traversal, inherited property lookup, the scope /           *)
(* current-target / finalizer life cycle of a Session, property keys,     *)
(* operator naming, BuildSet partitioning and graph persistence.          *)
(***************************************************************************)
EXTENDS Integers, Sequences, FiniteSets, TLC

VARIABLES deps, orArg, ret, result, properties, public_properties,
          scopeObjs, current_scopes, targetObjs, graph, blocks, runs, calls, raised,
          propValues, prevPropValues, writes, warnings,
          operators, operator_name_counter, current_operator, opCalls, opRet,
          bset, requested, parts,
          master, dump, loaded,
          boundTarget, prevDeps, dependsRet,
          finRet, ctxRet

graphVars == <<deps, orArg, ret, result, properties, public_properties>>

sessionVars == <<scopeObjs, current_scopes, targetObjs, graph, blocks, runs, calls, raised>>

keyVars == <<propValues, prevPropValues, writes, warnings>>

opVars == <<operators, operator_name_counter, current_operator, opCalls, opRet>>

partVars == <<bset, requested, parts>>

persistVars == <<master, dump, loaded>>

dependsVars == <<boundTarget, prevDeps, dependsRet>>

extVars == <<dependsVars, finRet, ctxRet>>

apiVars == <<keyVars, opVars, partVars, persistVars, extVars>>

vars == <<graphVars, sessionVars, apiVars>>

\* ------------------------------------------------------------------ bounds

\* Number of Target objects of the dependency graph.
NumTargets == 4

\* Largest number of Dependency edges in the whole graph.
MaxEdges == 4

\* Largest number of Dependency edges where every call's return is recorded.
MaxDeps == 3

\* Largest number of Dependency edges a script adds before it reads
\* properties, and largest number of property values it sets.
MaxPropDeps == 2
MaxWrites == 3

\* Largest number of Scope objects and of Target objects a session creates,
\* and of finalizers a Target is created with.
MaxScopes == 2
MaxTargetObjs == 2
MaxFinalizers == 1

Targets == 1..NumTargets

\* ------------------------------------------------------- dependency edges

\* The flag a re-added Dependency gets if the new value overwrote the old.
MergePublicOverwrite(old, public) == public

\* Target.dependencies: a copy of the list of Dependency objects of `self`.
Dependencies(d, self) == d[self]

\* Number of Dependency objects in the graph.
RECURSIVE EdgeCount(_, _)
EdgeCount(d, n) == IF n = 0 THEN 0 ELSE Len(d[n]) + EdgeCount(d, n - 1)

\* The position of the Dependency of a list whose target is `target`
\* (0 when there is none): the loop of add_dependency.
RECURSIVE FindDependency(_, _, _)
FindDependency(l, target, i) ==
  IF i > Len(l) THEN 0
  ELSE IF l[i].target = target THEN i
  ELSE FindDependency(l, target, i + 1)

\* Whether Target t has a Dependency on Target x.
HasEdge(d, t, x) == FindDependency(d[t], x, 1) # 0

\* Target.Dependency(target, public)
Dependency(target, public) == [target |-> target, public |-> public]

\* The flag an existing Dependency gets when it is added again.
MergePublic(old, public) == old \/ public

\* add_dependency that merges the flag before it looks at do_raise.
AddDependencyListMergeFirst(l, target, public, do_raise) ==
  LET i == FindDependency(l, target, 1) IN
  IF i # 0
    THEN [l EXCEPT ![i].public = l[i].public \/ public]
    ELSE Append(l, Dependency(target, public))

\* Target.add_dependency(target, public, do_raise): the dependency list of
\* `self` afterwards.
AddDependencyList(l, target, public, do_raise) ==
  LET i == FindDependency(l, target, 1) IN
  IF i # 0
    THEN IF do_raise THEN l
         ELSE [l EXCEPT ![i].public = MergePublic(l[i].public, public)]
    ELSE Append(l, Dependency(target, public))

\* Target.add_dependency(target, public, do_raise): what the call returns,
\* the position in the list of `self` of the Dependency object returned, or
\* 0 when the call raises RuntimeError.
AddDependencyRet(l, target, public, do_raise) ==
  LET i == FindDependency(l, target, 1) IN
  IF i # 0
    THEN IF do_raise THEN 0 ELSE i
    ELSE Len(l) + 1

\* The logical OR of the `public` arguments of the calls made so far for one
\* (owner, destination) pair: "unset" before the first call.
OrHistory(h, public) == IF public \/ h = "public" THEN "public" ELSE "private"

\* Properties(session.target_props, owner): a container with no value set.
NotSet == [set |-> FALSE, value |-> <<>>]

\* The two property containers of every Target as Target.__init__ makes them.
NoProperties ==
  /\ properties = [t \in Targets |-> NotSet]
  /\ public_properties = [t \in Targets |-> NotSet]

\* A Session in which no scope was entered and no Target created.
NoSession ==
  /\ scopeObjs = <<>>
  /\ current_scopes = <<>>
  /\ targetObjs = <<>>
  /\ graph = {}
  /\ blocks = <<>>
  /\ runs = <<>>
  /\ calls = <<>>
  /\ raised = "none"

\* The names of the list properties the schema declares, plain and with a
\* scope prefix, and a name it does not declare.
PropP == <<"p">>
PropSP == <<"s", ".", "p">>
PropQ == <<"q">>
Declared == {PropP, PropSP}

\* The private and the public container of a Target with no value set.
NoValues == [c \in {"private", "public"} |-> [n \in Declared |-> NotSet]]

\* No property was written through a key.
NoKeys ==
  /\ propValues = NoValues
  /\ prevPropValues = NoValues
  /\ writes = <<>>
  /\ warnings = 0

\* No operator() call was made; no Operator exists.  `clean` says that no
\* operator() call has raised so far.
NoOpRet == [kind |-> "none", target |-> 0, explicit |-> FALSE, bind |-> "None",
            name |-> <<>>, op_name |-> <<>>, prev |-> <<>>, clean |-> TRUE]

NoOps ==
  /\ operators = <<>>
  /\ operator_name_counter = <<>>
  /\ current_operator = <<>>
  /\ opCalls = <<>>
  /\ opRet = NoOpRet

\* The names of the file-sets of a BuildSet, and a file-set that is absent.
FileSetNames == {<<"a">>, <<"b">>}
Absent == [present |-> FALSE, kind |-> "none", files |-> <<>>]

\* No BuildSet was created, none partitioned.
NoBuildSet == [exists |-> FALSE, sets |-> [n \in FileSetNames |-> Absent], lineage |-> <<>>]
NoParts == [kind |-> "none", children |-> <<>>]

NoPartite ==
  /\ bset = NoBuildSet
  /\ requested = <<>>
  /\ parts = NoParts

\* Session.__init__(build_root, build_directory, build_variant, cli_options):
\* a session of a variant with no main module and an empty graph.
FreshSession(build_variant) ==
  [kind |-> "session", variant |-> build_variant, main_module |-> <<>>, targets |-> <<>>]

\* No graph was dumped, none loaded.
NoDump == [kind |-> "none", filename |-> <<>>, variant |-> <<>>, main_module |-> <<>>,
           data |-> <<>>]
NoLoaded == [kind |-> "none", variant |-> <<>>, main_module |-> <<>>, targets |-> <<>>]

NoPersist ==
  /\ master = FreshSession(<<"debug">>)
  /\ dump = NoDump
  /\ loaded = NoLoaded

\* No depends() call was made and no Target is bound for one.
NoDependsRet == [kind |-> "none", shape |-> "none", to |-> 0,
                 elems |-> <<>>, public |-> FALSE, do_raise |-> FALSE, message |-> <<>>]

NoDepends ==
  /\ boundTarget = 0
  /\ prevDeps = [t \in Targets |-> <<>>]
  /\ dependsRet = NoDependsRet

\* No finalize_target() call was made by a script.
NoFinRet == [kind |-> "none", target |-> 0, prev |-> 0, during |-> 0, after |-> 0,
             ran |-> FALSE]

\* No accessor of the current context was called.
NoCtxRet == [call |-> "none", do_raise |-> FALSE, raises |-> FALSE, message |-> "",
             none |-> TRUE, scope |-> 0, named |-> FALSE, target |-> 0,
             operator |-> [target |-> 0, idx |-> 0], created |-> FALSE]

NoExt ==
  /\ NoDepends
  /\ finRet = NoFinRet
  /\ ctxRet = NoCtxRet

NoApi ==
  /\ NoKeys
  /\ NoOps
  /\ NoPartite
  /\ NoPersist
  /\ NoExt

\* No query result is held.
NoResult == [kind |-> "none", root |-> 0, ok |-> TRUE, edges |-> <<>>]

NoRet == [kind |-> "none", owner |-> 0, target |-> 0, idx |-> 0]

\* Target.add_dependency(target, public, do_raise) on Target `self`.
AddDependency(self, target, public, do_raise) ==
  /\ deps' = [deps EXCEPT ![self] = AddDependencyList(deps[self], target, public, do_raise)]
  /\ orArg' = IF AddDependencyRet(deps[self], target, public, do_raise) = 0 THEN orArg
              ELSE [orArg EXCEPT ![self][target] = OrHistory(@, public)]

\* A script calls add_dependency() and keeps what the call returned.
AddDependencyCall(self, target, public, do_raise) ==
  /\ EdgeCount(deps, NumTargets) < MaxDeps \/ FindDependency(deps[self], target, 1) # 0
  /\ AddDependency(self, target, public, do_raise)
  /\ ret' = LET i == AddDependencyRet(deps[self], target, public, do_raise)
            IN [kind |-> IF i = 0 THEN "RuntimeError" ELSE "dep",
                owner |-> self, target |-> target, idx |-> i]
  /\ UNCHANGED <<result, properties, public_properties, sessionVars, apiVars>>

InitDeps ==
  /\ deps = [t \in Targets |-> <<>>]
  /\ orArg = [t \in Targets |-> [x \in Targets |-> "unset"]]
  /\ ret = NoRet
  /\ result = NoResult
  /\ NoProperties
  /\ NoSession
  /\ NoApi

NextDeps ==
  \E self \in Targets, target \in Targets, public \in BOOLEAN, do_raise \in BOOLEAN :
    AddDependencyCall(self, target, public, do_raise)

\* A script builds the graph with add_dependency(), as depends() does, and
\* drops what the calls return.
Depend(self, target, public) ==
  /\ result = NoResult
  /\ EdgeCount(deps, NumTargets) < MaxEdges \/ FindDependency(deps[self], target, 1) # 0
  /\ AddDependency(self, target, public, FALSE)
  /\ UNCHANGED <<ret, result, properties, public_properties, sessionVars, apiVars>>

\* ------------------------------------------------- transitive dependencies

\* The deepest nesting of worker() generators the interpreter allows.  A
\* nesting deeper than NumTargets has one Target twice on its call chain,
\* and from there the generator recurses without end: the interpreter ends
\* it with RecursionError.
RecursionLimit == NumTargets + 1

\* A Dependency object as the traversal yields it: `from` names its owner,
\* which tells the Dependency objects of different Targets apart.
Edge(owner, dep) == [from |-> owner, target |-> dep.target, public |-> dep.public]

\* worker() yielding every Dependency it meets.
YieldedAlways(dep, include_private) == TRUE

\* Whether worker() yields a Dependency of the Target it is visiting.
Yielded(dep, include_private) == dep.public \/ include_private

\* worker(target, include_private), from the i-th Dependency of `target` on:
\* the Dependency objects yielded, in order, and whether the generator
\* ran to its end (ok) or was ended by RecursionError.
RECURSIVE Worker(_, _, _, _, _)
Worker(d, target, include_private, depth, i) ==
  IF depth > RecursionLimit THEN [ok |-> FALSE, edges |-> <<>>]
  ELSE IF i > Len(Dependencies(d, target)) THEN [ok |-> TRUE, edges |-> <<>>]
  ELSE LET dep == Dependencies(d, target)[i]
           own == IF Yielded(dep, include_private)
                    THEN <<Edge(target, dep)>> ELSE <<>>
           sub == Worker(d, dep.target, FALSE, depth + 1, 1)
       IN IF ~sub.ok THEN [ok |-> FALSE, edges |-> own \o sub.edges]
          ELSE LET rest == Worker(d, target, include_private, depth, i + 1)
               IN [ok |-> rest.ok, edges |-> own \o sub.edges \o rest.edges]

\* A stream that drops nothing.
UniqueKeepAll(s, seen) == s

\* stream.unique(it, key=lambda d: d.target): the items whose key no
\* earlier item has, in order.
RECURSIVE Unique(_, _)
Unique(s, seen) ==
  IF s = <<>> THEN <<>>
  ELSE IF Head(s).target \in seen THEN Unique(Tail(s), seen)
  ELSE <<Head(s)>> \o Unique(Tail(s), seen \cup {Head(s).target})

\* Target.transitive_dependencies(), consumed to its end.
TransitiveDependencies(d, self) ==
  LET it == Worker(d, self, TRUE, 1, 1)
  IN [kind |-> "stream", root |-> self, ok |-> it.ok, edges |-> Unique(it.edges, {})]

\* A script calls self.transitive_dependencies() and consumes the stream.
Traverse(self) ==
  /\ result = NoResult
  /\ result' = TransitiveDependencies(deps, self)
  /\ UNCHANGED <<deps, orArg, ret, properties, public_properties, sessionVars, apiVars>>

\* The script drops the value the last query returned.
Discard ==
  /\ result # NoResult
  /\ result' = NoResult
  /\ UNCHANGED <<deps, orArg, ret, properties, public_properties, sessionVars, apiVars>>

InitGraph ==
  /\ deps = [t \in Targets |-> <<>>]
  /\ orArg = [t \in Targets |-> [x \in Targets |-> "unset"]]
  /\ ret = NoRet
  /\ result = NoResult
  /\ NoProperties
  /\ NoSession
  /\ NoApi

NextGraph ==
  \/ \E self \in Targets, target \in Targets, public \in BOOLEAN :
       Depend(self, target, public)
  \/ \E self \in Targets : Traverse(self)
  \/ Discard

SpecDeps == InitDeps /\ [][NextDeps]_vars

SpecGraph == InitGraph /\ [][NextGraph]_vars

\* ------------------------------------------------------------ properties

\* The schema default of the list property the model reads and writes.
PropDefault == <<0>>

\* The value a script gives the property in one container of Target t: a
\* list of one item that names the Target and the container.
Token(t, public) == IF public THEN t ELSE t + NumTargets

\* List.inherit(name, values): the values chained in order.
RECURSIVE Inherit(_)
Inherit(values) ==
  IF values = <<>> THEN <<>> ELSE Head(values) \o Inherit(Tail(values))

\* Target.__setitem__ once the markers are read off the key: the container
\* written to afterwards.
SetItemDest(dest, append, value) ==
  IF append /\ dest.set
    THEN [set |-> TRUE, value |-> Inherit(<<dest.value, value>>)]
    ELSE [set |-> TRUE, value |-> value]

\* Number of containers with the property set.
NumSet ==
  Cardinality({t \in Targets : properties[t].set})
    + Cardinality({t \in Targets : public_properties[t].set})

\* target[key] = value, the key with or without the '@' marker.
SetItem(t, public, value) ==
  /\ result = NoResult
  /\ NumSet < MaxWrites
       \/ (IF public THEN public_properties[t].set ELSE properties[t].set)
  /\ IF public
       THEN /\ public_properties' =
                 [public_properties EXCEPT ![t] = SetItemDest(@, FALSE, value)]
            /\ UNCHANGED properties
       ELSE /\ properties' = [properties EXCEPT ![t] = SetItemDest(@, FALSE, value)]
            /\ UNCHANGED public_properties
  /\ UNCHANGED <<deps, orArg, ret, result, sessionVars, apiVars>>

\* The public values of the destinations of `edges` that have one, in order.
RECURSIVE ExportedValues(_)
ExportedValues(edges) ==
  IF edges = <<>> THEN <<>>
  ELSE (IF public_properties[Head(edges).target].set
          THEN <<public_properties[Head(edges).target].value>> ELSE <<>>)
       \o ExportedValues(Tail(edges))

\* iter_values() with the own values in the wrong order.
IterValuesPrivateFirst(self, edges) ==
  (IF properties[self].set THEN <<properties[self].value>> ELSE <<>>)
  \o (IF public_properties[self].set THEN <<public_properties[self].value>> ELSE <<>>)
  \o ExportedValues(edges)

\* iter_values() of get_prop(inherit=True) over the edges the traversal
\* gave: the candidate values in order.
IterValues(self, edges) ==
  (IF public_properties[self].set THEN <<public_properties[self].value>> ELSE <<>>)
  \o (IF properties[self].set THEN <<properties[self].value>> ELSE <<>>)
  \o ExportedValues(edges)

\* Target.get_prop(prop_name, inherit): the value returned, or ok = FALSE
\* when the traversal ends in RecursionError.
GetProp(self, inherit) ==
  IF inherit
    THEN LET td == TransitiveDependencies(deps, self)
             values == IterValues(self, td.edges)
         IN [kind |-> "prop", root |-> self, ok |-> td.ok,
             edges |-> IF ~td.ok THEN <<>>
                       ELSE IF values = <<>> THEN PropDefault
                       ELSE Inherit(values)]
    ELSE [kind |-> "prop", root |-> self, ok |-> TRUE,
          edges |-> IF public_properties[self].set THEN public_properties[self].value
                    ELSE IF properties[self].set THEN properties[self].value
                    ELSE PropDefault]

\* A script reads self.get_prop(name, inherit=True).
GetPropCall(self) ==
  /\ result = NoResult
  /\ result' = GetProp(self, TRUE)
  /\ UNCHANGED <<deps, orArg, ret, properties, public_properties, sessionVars, apiVars>>

\* A script adds a dependency before it reads properties.
DependProp(self, target, public) ==
  /\ result = NoResult
  /\ EdgeCount(deps, NumTargets) < MaxPropDeps \/ FindDependency(deps[self], target, 1) # 0
  /\ AddDependency(self, target, public, FALSE)
  /\ UNCHANGED <<ret, result, properties, public_properties, sessionVars, apiVars>>

\* The diamond A -> B, A -> C, B -> D, C -> D with public edges.
Diamond ==
  [t \in Targets |->
     IF t = 1 THEN <<Dependency(2, TRUE), Dependency(3, TRUE)>>
     ELSE IF t \in {2, 3} THEN <<Dependency(4, TRUE)>>
     ELSE <<>>]

\* The scripts start with no Dependency or with the diamond built.
InitProps ==
  /\ deps \in {[t \in Targets |-> <<>>], Diamond}
  /\ orArg = [t \in Targets |->
                [x \in Targets |-> IF HasEdge(deps, t, x) THEN "public" ELSE "unset"]]
  /\ ret = NoRet
  /\ result = NoResult
  /\ NoProperties
  /\ NoSession
  /\ NoApi

NextProps ==
  \/ \E self \in Targets, target \in Targets, public \in BOOLEAN :
       DependProp(self, target, public)
  \/ \E t \in Targets, public \in BOOLEAN : SetItem(t, public, <<Token(t, public)>>)
  \/ \E self \in Targets : GetPropCall(self)
  \/ Discard

SpecProps == InitProps /\ [][NextProps]_vars

\* ------------------------------------------------- session, scopes, targets

\* Names are strings, modelled as sequences of characters.
NoName == <<>>
ScopeNames == {<<"a">>, <<"b">>}
TargetNames == {<<"x">>, <<"y">>}
Version == <<"1">>

\* '{}@{}'.format(scope.name, name): the id of a Target.
FormatId(scope_name, name) == scope_name \o <<"@">> \o name

\* Session.current_scope: the innermost Scope entered, 0 for None.
SessionCurrentScope ==
  IF current_scopes = <<>> THEN 0 ELSE current_scopes[Len(current_scopes)]

\* current_scope that does not look at the name and version of the scope.
CurrentScopeUnchecked(do_raise) ==
  [raises |-> do_raise /\ SessionCurrentScope = 0, val |-> SessionCurrentScope]

\* current_scope(do_raise): the Scope returned (0 for None), or a raise.
CurrentScope(do_raise) ==
  LET scope == SessionCurrentScope
      unnamed == scope # 0 /\ (scopeObjs[scope].name = NoName
                                \/ scopeObjs[scope].version = NoName)
  IN [raises |-> do_raise /\ (scope = 0 \/ unnamed),
      val |-> IF scope = 0 \/ unnamed THEN 0 ELSE scope]

\* current_target(do_raise): the Target returned (0 for None), or a raise.
CurrentTarget(do_raise) ==
  LET scope == CurrentScope(do_raise)
      target == IF scope.val = 0 THEN 0 ELSE scopeObjs[scope.val].current_target
  IN [raises |-> scope.raises \/ (do_raise /\ target = 0), val |-> target]

\* bind_target(target): the Scope objects afterwards.
BindTarget(scopes, target) ==
  [scopes EXCEPT ![SessionCurrentScope].current_target = target]

\* A counter of calls that stops at two.
CountCall(n) == IF n < 2 THEN n + 1 ELSE n

\* finalize_target(target), target = 0 for None: the Target objects, the
\* number of times the finalizers of each Target were executed, and the
\* error raised.  The finalizers run between bind_target(target) and
\* bind_target(prev_target), which leaves the binding as it was; the
\* counter `calls` counts the invocations that resolve to each Target.
FinalizeTarget(tobjs, rns, cls, target) ==
  LET t == IF target = 0 THEN CurrentTarget(FALSE).val ELSE target IN
  IF t = 0 THEN [targetObjs |-> tobjs, runs |-> rns, calls |-> cls, raised |-> "none"]
  ELSE IF tobjs[t].finalized
    THEN [targetObjs |-> tobjs, runs |-> rns,
          calls |-> [cls EXCEPT ![t] = CountCall(@)], raised |-> "none"]
  ELSE IF CurrentTarget(TRUE).raises
    THEN [targetObjs |-> [tobjs EXCEPT ![t].finalized = TRUE], runs |-> rns,
          calls |-> [cls EXCEPT ![t] = CountCall(@)], raised |-> "RuntimeError"]
  ELSE [targetObjs |-> [tobjs EXCEPT ![t].finalized = TRUE],
        runs |-> [rns EXCEPT ![t] = IF tobjs[t].nfin > 0 THEN @ + 1 ELSE @],
        calls |-> [cls EXCEPT ![t] = CountCall(@)], raised |-> "none"]

\* with session.enter_scope(name, version, directory): the block is entered.
EnterScope(name, version) ==
  /\ Len(scopeObjs) < MaxScopes
  /\ scopeObjs' = Append(scopeObjs,
       [name |-> name, version |-> version, current_target |-> 0,
        targets |-> [n \in TargetNames |-> 0]])
  /\ current_scopes' = Append(current_scopes, Len(scopeObjs) + 1)
  /\ blocks' = Append(blocks, [kind |-> "scope", scope |-> Len(scopeObjs) + 1,
                               target |-> 0, prev |-> 0])
  /\ raised' = "none"
  /\ UNCHANGED <<targetObjs, graph, runs, calls, graphVars, apiVars>>

\* The enter_scope() block is left: finalize_target(), then the pop.
ExitScope ==
  /\ blocks # <<>> /\ blocks[Len(blocks)].kind = "scope"
  /\ LET f == FinalizeTarget(targetObjs, runs, calls, 0) IN
       /\ targetObjs' = f.targetObjs
       /\ runs' = f.runs
       /\ calls' = f.calls
       /\ raised' = f.raised
  /\ current_scopes' = SubSeq(current_scopes, 1, Len(current_scopes) - 1)
  /\ blocks' = SubSeq(blocks, 1, Len(blocks) - 1)
  /\ UNCHANGED <<scopeObjs, graph, graphVars, apiVars>>

\* project(name, version)
Project(name, version) ==
  /\ IF SessionCurrentScope = 0
       THEN raised' = "AttributeError" /\ UNCHANGED scopeObjs
       ELSE /\ scopeObjs' = [scopeObjs EXCEPT ![SessionCurrentScope].name = name,
                                              ![SessionCurrentScope].version = version]
            /\ raised' = "none"
  /\ UNCHANGED <<current_scopes, targetObjs, graph, blocks, runs, calls, graphVars, apiVars>>

\* The ids of the Targets of the graph (Master.targets is keyed by id).
GraphIds == {targetObjs[t].id : t \in graph}

\* Master.add_target(target) fails on a Target whose id the graph holds.
MasterAddTargetRaises(id) == id \in GraphIds

\* target(name, finalize, bind=bind, ctx=ctx) with nfin finalizers; with
\* ctx the context manager returned is entered at once, as `with target(..)`
\* and the decorator form do.
TargetCall(name, nfin, bind, ctx) ==
  LET f == FinalizeTarget(targetObjs, runs, calls, 0)
      scope == CurrentScope(TRUE)
      t == Len(targetObjs) + 1
      id == FormatId(scopeObjs[scope.val].name, name)
      new == [id |-> id, name |-> name, scope |-> scope.val, nfin |-> nfin,
              finalized |-> FALSE]
      added == [scopeObjs EXCEPT ![scope.val].targets[name] = t]
  IN
  /\ Len(targetObjs) < MaxTargetObjs
  /\ IF scope.raises
       THEN \* finalize_target() found no current target; current_scope() raises
            /\ raised' = "RuntimeError"
            /\ UNCHANGED <<scopeObjs, targetObjs, graph, blocks, runs, calls>>
       ELSE IF MasterAddTargetRaises(id)
       THEN \* Session.add_target sets scope.targets, Master.add_target raises
            /\ targetObjs' = Append(f.targetObjs, new)
            /\ runs' = Append(f.runs, 0)
            /\ calls' = Append(f.calls, 0)
            /\ scopeObjs' = added
            /\ raised' = "ValueError"
            /\ UNCHANGED <<graph, blocks>>
       ELSE /\ targetObjs' = Append(f.targetObjs, new)
            /\ runs' = Append(f.runs, 0)
            /\ calls' = Append(f.calls, 0)
            /\ graph' = graph \cup {t}
            /\ scopeObjs' = IF bind THEN BindTarget(added, t) ELSE added
            /\ blocks' = IF bind /\ ctx
                           THEN Append(blocks, [kind |-> "ctx", scope |-> scope.val,
                                                target |-> t,
                                                prev |-> CurrentTarget(FALSE).val])
                           ELSE blocks
            /\ raised' = "none"
  /\ UNCHANGED <<current_scopes, graphVars, apiVars>>

\* The block of `with target(.., ctx=True)` is left: bind_target(prev).
ExitTargetContext ==
  /\ blocks # <<>> /\ blocks[Len(blocks)].kind = "ctx"
  /\ scopeObjs' = BindTarget(scopeObjs, blocks[Len(blocks)].prev)
  /\ blocks' = SubSeq(blocks, 1, Len(blocks) - 1)
  /\ raised' = "none"
  /\ UNCHANGED <<current_scopes, targetObjs, graph, runs, calls, graphVars, apiVars>>

\* A script calls finalize_target(target), target = 0 for no argument.
FinalizeTargetCall(target) ==
  /\ target <= Len(targetObjs)
  /\ LET f == FinalizeTarget(targetObjs, runs, calls, target) IN
       /\ targetObjs' = f.targetObjs
       /\ runs' = f.runs
       /\ calls' = f.calls
       /\ raised' = f.raised
  /\ UNCHANGED <<scopeObjs, current_scopes, graph, blocks, graphVars, apiVars>>

Init ==
  /\ NoSession
  /\ NoApi
  /\ deps = [t \in Targets |-> <<>>]
  /\ orArg = [t \in Targets |-> [x \in Targets |-> "unset"]]
  /\ ret = NoRet
  /\ result = NoResult
  /\ NoProperties

Next ==
  \/ \E name \in ScopeNames \cup {NoName} :
       EnterScope(name, IF name = NoName THEN NoName ELSE Version)
  \/ ExitScope
  \/ \E name \in ScopeNames : Project(name, Version)
  \/ \E name \in TargetNames, nfin \in 0..MaxFinalizers, bind \in BOOLEAN, ctx \in BOOLEAN :
       TargetCall(name, nfin, bind, ctx)
  \/ ExitTargetContext
  \/ \E target \in 0..MaxTargetObjs : FinalizeTargetCall(target)

Spec == Init /\ [][Next]_vars

\* ------------------------------------------------------ claims C1, C9, C10

\* C1: every Target t of the graph has t.id == t.scope.name + "@" + t.name,
\* and no two Targets of the graph share an id.
C1_TargetIdentity ==
  /\ \A t \in graph :
       targetObjs[t].id = FormatId(scopeObjs[targetObjs[t].scope].name, targetObjs[t].name)
  /\ \A t \in graph, u \in graph : targetObjs[t].id = targetObjs[u].id => t = u

\* C9: two successive invocations of finalize_target for a Target with
\* finalizers execute each finalizer exactly once in total.
C9_FinalizeIdempotent ==
  \A t \in 1..Len(targetObjs) :
    (targetObjs[t].nfin > 0 /\ calls[t] = 2) => runs[t] = 1

\* Whether the enter_scope() block of Scope s has been left.
Exited(s) == \A i \in 1..Len(current_scopes) : current_scopes[i] # s

\* C10: the finalizers of every Target that target() created inside an
\* enter_scope() block have run exactly once when the block has been left.
C10_FinalizedAtScopeExit ==
  \A t \in graph :
    (targetObjs[t].nfin > 0 /\ Exited(targetObjs[t].scope)) => runs[t] = 1

\* ------------------------------------------------------------- claims C2-C6

EdgesTo(l, x) == {i \in 1..Len(l) : l[i].target = x}

C2_OneEdgeOrMerged ==
  \A t \in Targets, x \in Targets :
    IF orArg[t][x] = "unset" THEN EdgesTo(deps[t], x) = {}
    ELSE /\ Cardinality(EdgesTo(deps[t], x)) = 1
         /\ \A i \in EdgesTo(deps[t], x) : deps[t][i].public = (orArg[t][x] = "public")

C2_ReturnsTheEdge ==
  ret.kind = "dep" =>
    /\ EdgesTo(deps[ret.owner], ret.target) = {ret.idx}
    /\ orArg[ret.owner][ret.target] # "unset"

\* C2: after any sequence of add_dependency(x, public) calls with
\* do_raise=False the list of a Target holds exactly one edge per destination
\* that was added, the edge's public flag is the logical OR of the public
\* arguments passed for that destination, and each call returns that edge.
C2_AddDependencyMerges == C2_OneEdgeOrMerged /\ C2_ReturnsTheEdge

\* C2 witness: a Target with two edges, one whose calls passed public=True
\* at least once and one whose calls were all private, and the last call
\* returned the first of the two: an edge that was there already.
C2_Witness ==
  \E t \in Targets, x \in Targets, y \in Targets :
    /\ orArg[t][x] = "public" /\ orArg[t][y] = "private"
    /\ Len(deps[t]) = 2
    /\ ret = [kind |-> "dep", owner |-> t, target |-> deps[t][1].target, idx |-> 1]

\* The position in `raw` of the first item whose destination is x.
FirstIndex(raw, x) == CHOOSE k \in 1..Len(raw) :
  raw[k].target = x /\ \A j \in 1..(k - 1) : raw[j].target # x

IsDiamond(d, A, B, C, D) ==
  /\ Cardinality({A, B, C, D}) = 4
  /\ d[A] = <<Dependency(B, TRUE), Dependency(C, TRUE)>>
  /\ d[B] = <<Dependency(D, TRUE)>>
  /\ d[C] = <<Dependency(D, TRUE)>>
  /\ d[D] = <<>>

\* C3: transitive_dependencies() holds at most one edge per destination, the
\* edge kept is the first one the depth-first traversal meets (the first
\* edge of the root comes first), and in the diamond A->B, A->C, B->D, C->D
\* the result is A->B, B->D, A->C: one edge to D, the one of B.
C3_FirstEdgePerDestination ==
  result.kind = "stream" =>
    LET e == result.edges
        raw == Worker(deps, result.root, TRUE, 1, 1).edges
    IN /\ \A i \in 1..Len(e), j \in 1..Len(e) : e[i].target = e[j].target => i = j
       /\ \A i \in 1..Len(e) : e[i] = raw[FirstIndex(raw, e[i].target)]
       /\ \A i \in 1..Len(e), j \in 1..Len(e) :
            i < j => FirstIndex(raw, e[i].target) < FirstIndex(raw, e[j].target)
       /\ {x.target : x \in {raw[k] : k \in 1..Len(raw)}} = {e[i].target : i \in 1..Len(e)}
       /\ deps[result.root] # <<>> =>
            e # <<>> /\ e[1] = Edge(result.root, deps[result.root][1])
       /\ \A B \in Targets, C \in Targets, D \in Targets :
            IsDiamond(deps, result.root, B, C, D) =>
              e = << [from |-> result.root, target |-> B, public |-> TRUE],
                     [from |-> B, target |-> D, public |-> TRUE],
                     [from |-> result.root, target |-> C, public |-> TRUE] >>

\* C3 witness: the traversal of the diamond from its top has been consumed.
C3_Witness ==
  /\ result.kind = "stream" /\ result.ok
  /\ \E B \in Targets, C \in Targets, D \in Targets :
       IsDiamond(deps, result.root, B, C, D)

\* C4: if A depends privately on B, no other Target has an edge to B, and
\* E depends on A, then no edge of E.transitive_dependencies() leads to B.
C4_PrivateNotPropagated ==
  result.kind = "stream" =>
    \A A \in Targets \ {result.root}, B \in Targets :
      ( /\ HasEdge(deps, result.root, A)
        /\ HasEdge(deps, A, B)
        /\ ~deps[A][FindDependency(deps[A], B, 1)].public
        /\ \A t \in Targets \ {A} : ~HasEdge(deps, t, B) )
      => \A i \in 1..Len(result.edges) : result.edges[i].target # B

\* C4 witness: E -> A, A -> B private, B the destination of no other edge,
\* and the traversal from E has been consumed to its end.
C4_Witness ==
  /\ result.kind = "stream" /\ result.ok
  /\ \E A \in Targets \ {result.root}, B \in Targets \ {result.root} :
       /\ A # B
       /\ HasEdge(deps, result.root, A)
       /\ HasEdge(deps, A, B)
       /\ ~deps[A][FindDependency(deps[A], B, 1)].public
       /\ \A t \in Targets \ {A} : ~HasEdge(deps, t, B)

\* The Targets a set S leads to over one public edge.
PublicStep(d, S) ==
  {x \in Targets : \E t \in S : HasEdge(d, t, x) /\ d[t][FindDependency(d[t], x, 1)].public}

RECURSIVE PublicClosure(_, _, _)
PublicClosure(d, S, n) ==
  IF n = 0 THEN S ELSE PublicClosure(d, S \cup PublicStep(d, S), n - 1)

\* The Targets reached from `root` over a path whose edges after the first
\* are all public.
PublicReach(d, root) ==
  PublicClosure(d, {x \in Targets : HasEdge(d, root, x)}, NumTargets)

\* C5: every edge of transitive_dependencies() is an edge of the root or a
\* public edge reached from the root over a path whose edges after the first
\* are all public (the edges of a private dependency are not followed).
C5_OnlyPublicFollowed ==
  (result.kind = "stream" /\ result.ok) =>
    \A i \in 1..Len(result.edges) :
      \/ result.edges[i].from = result.root
      \/ /\ result.edges[i].public
         /\ result.edges[i].from \in PublicReach(deps, result.root)

\* C6: consuming transitive_dependencies() terminates with a finite sequence
\* of edges, whatever graph add_dependency() built.
C6_TraversalTerminates == result.kind = "stream" => result.ok

\* ------------------------------------------------------------- claims C7-C8

\* The items the public values of the destinations of `edges` hold, for the
\* destinations that export one.
RECURSIVE ExportedTokens(_)
ExportedTokens(edges) ==
  IF edges = <<>> THEN <<>>
  ELSE (IF public_properties[Head(edges).target].set
          THEN <<Token(Head(edges).target, TRUE)>> ELSE <<>>)
       \o ExportedTokens(Tail(edges))

\* C7: get_prop(name, inherit=True) merges, in this order, the own public
\* value if set, the own private value if set, and for each edge of
\* transitive_dependencies() in traversal order the public value of its
\* destination if set; private values of dependencies never contribute.
C7_InheritOrder ==
  (result.kind = "prop" /\ result.ok) =>
    LET self == result.root
        td == TransitiveDependencies(deps, self)
        expected ==
          (IF public_properties[self].set THEN <<Token(self, TRUE)>> ELSE <<>>)
          \o (IF properties[self].set THEN <<Token(self, FALSE)>> ELSE <<>>)
          \o ExportedTokens(td.edges)
    IN /\ result.edges = IF expected = <<>> THEN PropDefault ELSE expected
       /\ \A i \in 1..Len(result.edges), t \in Targets \ {self} :
            result.edges[i] # Token(t, FALSE)

\* C7 witness: own public value, own private value and one public dependency
\* that exports a value; the result is the three values in the order
\* [1, 2, 3] of the claim.
C7_Witness ==
  /\ result.kind = "prop" /\ result.ok
  /\ \E x \in Targets \ {result.root} :
       /\ deps[result.root] = <<Dependency(x, TRUE)>>
       /\ result.edges = <<Token(result.root, TRUE), Token(result.root, FALSE), Token(x, TRUE)>>

\* How often item v occurs in sequence s.
Occurrences(s, v) == Cardinality({i \in 1..Len(s) : s[i] = v})

\* C8: each Target reached over several paths contributes its public value
\* at most once to get_prop(name, inherit=True); in the diamond the value D
\* exports contributes exactly once to the value A inherits.
C8_ContributesOnce ==
  (result.kind = "prop" /\ result.ok) =>
    /\ \A t \in Targets : Occurrences(result.edges, Token(t, TRUE)) <= 1
    /\ (deps = Diamond /\ result.root = 1 /\ public_properties[4].set) =>
         Occurrences(result.edges, Token(4, TRUE)) = 1

\* C8 witness: the value inherited at the top of the diamond, D and both
\* middle Targets exporting a value.
C8_Witness ==
  /\ result.kind = "prop" /\ result.ok
  /\ deps = Diamond /\ result.root = 1
  /\ public_properties[4].set /\ public_properties[2].set /\ public_properties[3].set
  /\ result.edges = <<Token(2, TRUE), Token(4, TRUE), Token(3, TRUE)>>

\* ------------------------------------------------------------ property keys

\* Largest number of property writes a script makes through keys.
MaxKeyWrites == 3

\* The key with a '+' marker in front and behind, which the loop of
\* __setitem__ reads as an append to the name that keeps the second '+'.
MarkerForms == {"p", "@p", "+p", "p+", "@+p", "+@p", "@p+"}
KeyForms == MarkerForms \cup {"+p+", "+@p+"}

\* The key string of a form for a property name.
KeyOf(form, name) ==
  CASE form = "p" -> name
    [] form = "@p" -> <<"@">> \o name
    [] form = "+p" -> <<"+">> \o name
    [] form = "p+" -> name \o <<"+">>
    [] form = "@+p" -> <<"@", "+">> \o name
    [] form = "+@p" -> <<"+", "@">> \o name
    [] form = "@p+" -> <<"@">> \o name \o <<"+">>
    [] form = "+p+" -> <<"+">> \o name \o <<"+">>
    [] form = "+@p+" -> <<"+", "@">> \o name \o <<"+">>

\* The marker loop of Target.__setitem__ and of properties(): the flags read
\* off the key and the name left; key[0] of an empty key is an IndexError.
RECURSIVE ParseKey(_, _, _)
ParseKey(public, append, key) ==
  IF key = <<>> THEN [public |-> public, append |-> append, name |-> key, error |-> TRUE]
  ELSE IF ~public /\ key[1] = "@" THEN ParseKey(TRUE, append, Tail(key))
  ELSE IF ~append /\ key[1] = "+" THEN ParseKey(public, TRUE, Tail(key))
  ELSE IF ~append /\ key[Len(key)] = "+"
    THEN ParseKey(public, TRUE, SubSeq(key, 1, Len(key) - 1))
  ELSE [public |-> public, append |-> append, name |-> key, error |-> FALSE]

\* Properties.is_set(name): the container is sparse, a name never set is not set.
IsSet(dest, name) == name \in Declared /\ dest[name].set

\* Properties.__setitem__(name, value): NoSuchProperty for a name the schema
\* does not declare, else the container with the value set.
PropertiesSetItem(dest, name, value) ==
  IF name \in Declared
    THEN [raises |-> FALSE, dest |-> [dest EXCEPT ![name] = [set |-> TRUE, value |-> value]]]
    ELSE [raises |-> TRUE, dest |-> dest]

\* The value written when the append marker is ignored.
AppendValueOverwrite(dest, name, append, value) == value

\* The value Target.__setitem__ writes: for an append to a value that is
\* set, the type's inherit() of the old and the new value.
AppendValue(dest, name, append, value) ==
  IF append /\ IsSet(dest, name)
    THEN Inherit(<<dest[name].value, value>>)
    ELSE value

\* Target.__setitem__ that writes to the private container whatever the key.
TargetSetItemPrivateOnly(vals, key, value) ==
  LET k == ParseKey(FALSE, FALSE, key)
      set == PropertiesSetItem(vals["private"], k.name,
                               AppendValue(vals["private"], k.name, k.append, value))
  IN [values |-> [vals EXCEPT !["private"] = set.dest],
      warned |-> set.raises, raises |-> k.error]

\* Target.__setitem__ without the try/except around the write.
TargetSetItemNoCatch(vals, key, value) ==
  LET k == ParseKey(FALSE, FALSE, key)
      c == IF k.public THEN "public" ELSE "private"
      set == PropertiesSetItem(vals[c], k.name, AppendValue(vals[c], k.name, k.append, value))
  IN [values |-> [vals EXCEPT ![c] = set.dest],
      warned |-> FALSE, raises |-> k.error \/ set.raises]

\* Target.__setitem__(prop_name, value): both containers afterwards, whether
\* NoSuchProperty was caught and the warning printed, and whether the call
\* raises.
TargetSetItem(vals, key, value) ==
  LET k == ParseKey(FALSE, FALSE, key)
      c == IF k.public THEN "public" ELSE "private"
      set == PropertiesSetItem(vals[c], k.name, AppendValue(vals[c], k.name, k.append, value))
  IN [values |-> [vals EXCEPT ![c] = set.dest],
      warned |-> set.raises, raises |-> k.error]

\* The value of the n-th write: a list of one item that names the write.
WriteValue(n) == <<n>>

\* The write a script makes as its n-th: the call and what it did.
KeyWrite(via, scope, form, name, key, r) ==
  [via |-> via, scope |-> scope, form |-> form, name |-> name, key |-> key,
   value |-> WriteValue(Len(writes) + 1), raised |-> r.raises]

\* A script runs target[key] = value, the key of a form for a name.
SetItemKey(form, name) ==
  /\ Len(writes) < MaxKeyWrites
  /\ LET key == KeyOf(form, name)
         r == TargetSetItem(propValues, key, WriteValue(Len(writes) + 1)) IN
       /\ propValues' = r.values
       /\ warnings' = IF r.warned THEN warnings + 1 ELSE warnings
       /\ writes' = Append(writes, KeyWrite("setitem", <<>>, form, name, key, r))
  /\ prevPropValues' = propValues
  /\ UNCHANGED <<graphVars, sessionVars, opVars, partVars, persistVars, extVars>>

\* The keyword forms of properties().
PublicPrefix == <<"p", "u", "b", "l", "i", "c", "_", "_">>
AppendSuffix == <<"_", "_", "a", "p", "p", "e", "n", "d">>
KwForms == {"p", "public__p", "p__append", "public__p__append"}

KwKeyOf(form, name) ==
  CASE form = "p" -> name
    [] form = "public__p" -> PublicPrefix \o name
    [] form = "p__append" -> name \o AppendSuffix
    [] form = "public__p__append" -> PublicPrefix \o name \o AppendSuffix

\* str.startswith and str.endswith
StartsWith(str, prefix) ==
  Len(str) >= Len(prefix) /\ SubSeq(str, 1, Len(prefix)) = prefix

EndsWith(str, suffix) ==
  Len(str) >= Len(suffix) /\ SubSeq(str, Len(str) - Len(suffix) + 1, Len(str)) = suffix

\* properties(): one keyword argument read into (public, append, key).
CompileKwarg(key) ==
  LET public == StartsWith(key, PublicPrefix)
      key1 == IF public THEN SubSeq(key, 9, Len(key)) ELSE key
      append == EndsWith(key1, AppendSuffix)
      key2 == IF append THEN SubSeq(key1, 1, Len(key1) - 8) ELSE key1
  IN [public |-> public, append |-> append, name |-> key2, error |-> FALSE]

\* properties(): the key handed to target[c_key] for one compiled entry
\* under the scope prefix (empty for none).
CompiledKey(scope, c) ==
  (IF c.public THEN <<"@">> ELSE <<>>)
    \o (IF scope = <<>> THEN <<>> ELSE scope \o <<".">>)
    \o c.name
    \o (IF c.append THEN <<"+">> ELSE <<>>)

\* properties(target, scope, {key: value}) or properties(target, scope,
\* key=value): both containers of the target afterwards.
Properties(vals, scope, via, key, value) ==
  LET c == IF via = "kwargs" THEN CompileKwarg(key) ELSE ParseKey(FALSE, FALSE, key) IN
  IF c.error THEN [values |-> vals, warned |-> FALSE, raises |-> TRUE]
  ELSE TargetSetItem(vals, CompiledKey(scope, c), value)

\* A script calls properties() with one entry, its key of a form for a name.
PropertiesCall(scope, via, form, name) ==
  /\ Len(writes) < MaxKeyWrites
  /\ LET key == IF via = "kwargs" THEN KwKeyOf(form, name) ELSE KeyOf(form, name)
         r == Properties(propValues, scope, via, key, WriteValue(Len(writes) + 1)) IN
       /\ propValues' = r.values
       /\ warnings' = IF r.warned THEN warnings + 1 ELSE warnings
       /\ writes' = Append(writes, KeyWrite(via, scope, form, name, key, r))
  /\ prevPropValues' = propValues
  /\ UNCHANGED <<graphVars, sessionVars, opVars, partVars, persistVars, extVars>>

ScopePrefixes == {<<>>, <<"s">>}

InitKeys ==
  /\ deps = [t \in Targets |-> <<>>]
  /\ orArg = [t \in Targets |-> [x \in Targets |-> "unset"]]
  /\ ret = NoRet
  /\ result = NoResult
  /\ NoProperties
  /\ NoSession
  /\ NoApi

NextKeys ==
  \/ \E form \in KeyForms, name \in {PropP, PropSP, PropQ} : SetItemKey(form, name)
  \/ \E scope \in ScopePrefixes, form \in KeyForms, name \in {PropP, PropQ} :
       PropertiesCall(scope, "props", form, name)
  \/ \E scope \in ScopePrefixes, form \in KwForms, name \in {PropP, PropQ} :
       PropertiesCall(scope, "kwargs", form, name)

SpecKeys == InitKeys /\ [][NextKeys]_vars

\* --------------------------------------------------- claims C15, C16, C17

\* What the key convention says of a key form: written to the public
\* container, appended, and the schema name for the property name n.
FormPublic(form) == form \in {"@p", "@+p", "+@p", "@p+", "+@p+", "public__p", "public__p__append"}
FormAppend(form) == form \in {"+p", "p+", "@+p", "+@p", "@p+", "+p+", "+@p+",
                              "p__append", "public__p__append"}
FormName(form, n) == IF form \in {"+p+", "+@p+"} THEN n \o <<"+">> ELSE n

Scoped(scope, n) == IF scope = <<>> THEN n ELSE scope \o <<".">> \o n

\* The form and the property name a recorded write was made with.
WriteForm(w) == <<w.form, w.name>>

\* The container and the schema name a recorded write is for by the convention.
WriteContainer(w) == IF FormPublic(WriteForm(w)[1]) THEN "public" ELSE "private"
WriteAppend(w) == FormAppend(WriteForm(w)[1])
WriteName(w) == Scoped(w.scope, FormName(WriteForm(w)[1], WriteForm(w)[2]))

Other(c) == IF c = "public" THEN "private" ELSE "public"

LastWrite == writes[Len(writes)]

\* The last write changed at most the entry `name` of container c, which
\* now ends with the value written.
WroteOnly(c, name) ==
  /\ propValues[Other(c)] = prevPropValues[Other(c)]
  /\ \A n \in Declared \ {name} : propValues[c][n] = prevPropValues[c][n]
  /\ propValues[c][name].set
  /\ propValues[c][name].value # <<>>
  /\ propValues[c][name].value[Len(propValues[c][name].value)] = LastWrite.value[1]

\* The marker key that corresponds to a keyword form.
KwMarker(form) ==
  CASE form = "p" -> "p"
    [] form = "public__p" -> "@p"
    [] form = "p__append" -> "p+"
    [] form = "public__p__append" -> "@p+"

\* C15: a key built from a declared property p with one '@' and one '+'
\* marker in any order is resolved to p; with '@' only the public container
\* changes, without '@' only the private one; properties() with a
\* public__ / __append keyword and a scope prefix does what the marker key on
\* scope.p does.
C15_KeyMarkers ==
  writes # <<>> =>
    /\ (LastWrite.via # "kwargs" /\ WriteForm(LastWrite)[1] \in MarkerForms
          /\ WriteName(LastWrite) \in Declared)
         => (~LastWrite.raised /\ WroteOnly(WriteContainer(LastWrite), WriteName(LastWrite)))
    /\ LastWrite.via = "kwargs" =>
         /\ ~LastWrite.raised
         /\ WriteName(LastWrite) \in Declared
              => WroteOnly(WriteContainer(LastWrite), WriteName(LastWrite))
         /\ propValues =
              TargetSetItem(prevPropValues,
                            KeyOf(KwMarker(WriteForm(LastWrite)[1]),
                                  Scoped(LastWrite.scope, WriteForm(LastWrite)[2])),
                            LastWrite.value).values

\* properties("s", public__p__append=v) appended to the public value of s.p
\* and left the private value of s.p alone.
C15_Witness ==
  /\ Len(writes) = 3
  /\ LastWrite.via = "kwargs" /\ LastWrite.scope = <<"s">>
  /\ LastWrite.key = KwKeyOf("public__p__append", PropP)
  /\ propValues["public"][PropSP].value = <<2, 3>>
  /\ propValues["private"][PropSP].value = <<1>>

\* The recorded writes that are, by the convention, for entry n of container c.
WritesFor(c, n) == SelectSeq(writes, LAMBDA w : WriteContainer(w) = c /\ WriteName(w) = n)

\* The index of the last write of r that is not an append, 1 if there is none.
LastPlain(r) ==
  LET plain == {i \in 1..Len(r) : ~WriteAppend(r[i])} IN
  IF plain = {} THEN 1 ELSE CHOOSE i \in plain : \A j \in plain : j <= i

\* The values of the writes r[k], r[k+1], ... chained.
RECURSIVE ChainFrom(_, _)
ChainFrom(r, k) == IF k > Len(r) THEN <<>> ELSE r[k].value \o ChainFrom(r, k + 1)

\* C16: the stored value of a list property in a container is the value of
\* the last non-append write followed by the values of the later append
\* writes in call order; an append to an unset property is a plain set.
C16_AppendConcatenates ==
  \A c \in {"private", "public"}, n \in Declared :
    LET r == WritesFor(c, n) IN
    IF r = <<>> THEN ~propValues[c][n].set
    ELSE propValues[c][n].set /\ propValues[c][n].value = ChainFrom(r, LastPlain(r))

\* A set that discarded the value before it, followed by an append.
C16_Witness ==
  /\ Len(writes) = 3
  /\ \A i \in 1..3 : WriteContainer(writes[i]) = "private" /\ WriteName(writes[i]) = PropP
  /\ ~WriteAppend(writes[2]) /\ WriteAppend(writes[3])
  /\ propValues["private"][PropP].value = <<2, 3>>

MaxOperators == 3

\* Operator names a script passes: without '#', and with an explicit suffix.
OpBaseNames == {<<"c">>, <<"l">>}
OpNames == OpBaseNames \cup {<<"c", "#", "1">>, <<"c", "#", "2">>}

\* No Operator (None), and the Operator at place idx of a Target's operators.
NoOperator == [target |-> 0, idx |-> 0]
OperatorAt(target, idx) == [target |-> target, idx |-> idx]

\* str(count) for a count >= 0
DigitChars == <<"0", "1", "2", "3", "4", "5", "6", "7", "8", "9">>
RECURSIVE Str(_)
Str(n) == IF n < 10 THEN <<DigitChars[n + 1]>>
          ELSE Str(n \div 10) \o <<DigitChars[(n % 10) + 1]>>

\* '#' in name
Contains(str, ch) == \E i \in 1..Len(str) : str[i] = ch

\* The counter of a base name left as it is after a use.
NextCountSame(count) == count

\* operator(): target._operator_name_counter[name] = count + 1
NextCount(count) == count + 1

\* operator(): name += '#' + str(count)
AdjustedName(name, count) == name \o <<"#">> \o Str(count)

\* operator(): the value of bind after the defaults are filled in.
EffectiveBind(target, bind) ==
  IF bind # "None" THEN bind ELSE IF target = 0 THEN "True" ELSE "False"

\* Target.add_operator(op): the operators of the Target afterwards.
AddOperator(ops, op_name) == Append(ops, op_name)

\* Number of Operators created.
RECURSIVE OperatorCount(_)
OperatorCount(n) == IF n = 0 THEN 0 ELSE Len(operators[n]) + OperatorCount(n - 1)

\* operator(name, commands, target=target, bind=bind); target = 0 for None.
OperatorCall(name, target, bind) ==
  LET ct == CurrentTarget(TRUE)
      t == IF target = 0 THEN ct.val ELSE target
      adjust == ~Contains(name, "#")
      count == operator_name_counter[t][name]
      op_name == IF adjust THEN AdjustedName(name, count) ELSE name
      op == OperatorAt(t, Len(operators[t]) + 1)
      call == [kind |-> "op", target |-> t, explicit |-> target # 0, bind |-> bind,
               name |-> name, op_name |-> op_name, prev |-> current_operator,
               clean |-> opRet.clean]
  IN
  /\ OperatorCount(Len(operators)) < MaxOperators
  /\ target <= Len(targetObjs)
  /\ IF target = 0 /\ ct.raises
       THEN \* current_target() raises before anything is done
            /\ opRet' = [NoOpRet EXCEPT !.kind = "RuntimeError", !.bind = bind,
                                        !.name = name, !.prev = current_operator,
                                        !.clean = FALSE]
            /\ UNCHANGED <<operators, operator_name_counter, current_operator, opCalls>>
       ELSE /\ operator_name_counter' =
                 IF adjust THEN [operator_name_counter EXCEPT ![t][name] = NextCount(count)]
                 ELSE operator_name_counter
            /\ opCalls' = IF adjust THEN [opCalls EXCEPT ![t][name] = @ + 1] ELSE opCalls
            /\ operators' = [operators EXCEPT ![t] = AddOperator(@, op_name)]
            /\ IF ct.raises
                 THEN \* bind_operator(op): current_target() raises
                      /\ UNCHANGED current_operator
                      /\ opRet' = [call EXCEPT !.kind = "RuntimeError", !.clean = FALSE]
                 ELSE /\ current_operator' = [current_operator EXCEPT ![ct.val] = op]
                      /\ opRet' = call
  /\ UNCHANGED <<graphVars, sessionVars, keyVars, partVars, persistVars, extVars>>

\* A script calls bind_target(target), target = 0 for None.
BindTargetCall(target) ==
  /\ target <= Len(targetObjs)
  /\ scopeObjs' = BindTarget(scopeObjs, target)
  /\ UNCHANGED <<current_scopes, targetObjs, graph, blocks, runs, calls, raised,
                 graphVars, apiVars>>

\* A session in which a script entered scope a and created the Targets x
\* and y with bind=False.
InitOps ==
  /\ deps = [t \in Targets |-> <<>>]
  /\ orArg = [t \in Targets |-> [x \in Targets |-> "unset"]]
  /\ ret = NoRet
  /\ result = NoResult
  /\ NoProperties
  /\ NoKeys
  /\ NoPartite
  /\ NoPersist
  /\ NoExt
  /\ scopeObjs = <<[name |-> <<"a">>, version |-> Version, current_target |-> 0,
                    targets |-> (<<"x">> :> 1 @@ <<"y">> :> 2)]>>
  /\ current_scopes = <<1>>
  /\ targetObjs = <<[id |-> FormatId(<<"a">>, <<"x">>), name |-> <<"x">>, scope |-> 1,
                     nfin |-> 0, finalized |-> FALSE],
                    [id |-> FormatId(<<"a">>, <<"y">>), name |-> <<"y">>, scope |-> 1,
                     nfin |-> 0, finalized |-> FALSE]>>
  /\ graph = {1, 2}
  /\ blocks = <<[kind |-> "scope", scope |-> 1, target |-> 0, prev |-> 0]>>
  /\ runs = <<0, 0>>
  /\ calls = <<0, 0>>
  /\ raised = "none"
  /\ operators = <<<<>>, <<>>>>
  /\ operator_name_counter = <<[b \in OpBaseNames |-> 1], [b \in OpBaseNames |-> 1]>>
  /\ current_operator = <<NoOperator, NoOperator>>
  /\ opCalls = <<[b \in OpBaseNames |-> 0], [b \in OpBaseNames |-> 0]>>
  /\ opRet = NoOpRet

NextOps ==
  \/ \E name \in OpNames, target \in 0..2, bind \in {"None", "True", "False"} :
       OperatorCall(name, target, bind)
  \/ \E target \in 0..2 : BindTargetCall(target)

SpecOps == InitOps /\ [][NextOps]_vars

\* --------------------------------------------------- claims C18, C19, C20

\* C18: operator() with a name without '#' names the operator name#n, n
\* being the number of earlier such calls for the target and base name plus
\* one; a name with '#' is used as it is and advances no counter.
C18_OperatorNameCounter ==
  /\ \A t \in 1..Len(operators), b \in OpBaseNames :
       operator_name_counter[t][b] = opCalls[t][b] + 1
  /\ opRet.target # 0 =>
       opRet.op_name =
         IF opRet.name \in OpBaseNames
           THEN opRet.name \o <<"#", DigitChars[opCalls[opRet.target][opRet.name] + 1]>>
           ELSE opRet.name

\* The third operator('c', ...) of Target 1 is named c#3 while the counter
\* of the other base name and of the other Target stand at 1.
C18_Witness ==
  /\ opRet.target = 1
  /\ opRet.op_name = <<"c", "#", "3">>
  /\ operators[1] = <<<<"c", "#", "1">>, <<"c", "#", "2">>, <<"c", "#", "3">>>>
  /\ operator_name_counter[1] = (<<"c">> :> 4 @@ <<"l">> :> 1)
  /\ operator_name_counter[2] = (<<"c">> :> 1 @@ <<"l">> :> 1)

\* C19: after any sequence of operator() calls on a Target, none of which
\* raised, the operators added to it have pairwise distinct names.
C19_OperatorNamesDistinct ==
  opRet.clean =>
  \A t \in 1..Len(operators) :
    \A i \in 1..Len(operators[t]), j \in 1..Len(operators[t]) :
      operators[t][i] = operators[t][j] => i = j

\* C20: operator() with an explicit target and bind unspecified or False
\* succeeds, also with no current target bound, and leaves the
\* current_operator of every Target as it was.
C20_ExplicitTargetNotBound ==
  (opRet.kind # "none" /\ opRet.explicit /\ opRet.bind \in {"None", "False"}) =>
    (opRet.kind = "op" /\ current_operator = opRet.prev)

\* ------------------------------------------------------ BuildSet partitioning

\* Largest number of files a script puts into one file-set.
MaxFiles == 4

\* The i-th path of file-set n.
Path(n, i) == [set |-> n[1], i |-> i]

\* A files argument: a list of k paths, or one path given as a plain string.
FilesList(n, k) == [str |-> FALSE, path |-> Path(n, 0), files |-> [i \in 1..k |-> Path(n, i)]]
FilesStr(n) == [str |-> TRUE, path |-> Path(n, 1), files |-> <<>>]

\* BuildSet.__init__: `if isinstance(files, str): files = [files]`
AsList(arg) == IF arg.str THEN <<arg.path>> ELSE arg.files

\* BuildSet.add_input_files / add_output_files: the file-set is recorded.
AddFiles(sets, kind, set_name, files) ==
  [sets EXCEPT ![set_name] = [present |-> TRUE, kind |-> kind, files |-> files]]

\* BuildSet(inputs, outputs): inputs and outputs map each of their set names
\* to a files argument.
BuildSetInit(inputs, outputs) ==
  LET withInputs == [n \in FileSetNames |->
                       IF n \in DOMAIN inputs
                         THEN AddFiles(NoBuildSet.sets, "input", n, AsList(inputs[n]))[n]
                         ELSE Absent]
      withOutputs == [n \in FileSetNames |->
                        IF n \in DOMAIN outputs
                          THEN AddFiles(withInputs, "output", n, AsList(outputs[n]))[n]
                          ELSE withInputs[n]]
  IN [exists |-> TRUE, sets |-> withOutputs, lineage |-> <<>>]

\* The files arguments of one set name, and no entry for the name.
FilesArgs(n) == {FilesList(n, k) : k \in 0..MaxFiles} \cup {FilesStr(n)}
NoFiles == <<>>
OneSet(n, arg) == n :> arg

\* A script creates the BuildSet with a as an input and b as an output set.
NewBuildSet(inputs, outputs) ==
  /\ ~bset.exists
  /\ bset' = BuildSetInit(inputs, outputs)
  /\ UNCHANGED <<requested, parts, graphVars, sessionVars, keyVars, opVars, persistVars, extVars>>

\* A requested name with the optional marker, and the set name it stands for.
Optional(name) == name[Len(name)] = "?"
SetName(name) == IF Optional(name) THEN SubSeq(name, 1, Len(name) - 1) ELSE name

\* The lineage of a child that names the source once for every requested name.
ChildLineagePerName(parent, names) == [i \in 1..Len(names) |-> parent]

\* The lineage of a child of a partition: the source BuildSet, once.
ChildLineage(parent, names) == <<parent>>

\* The child for the wrong index of the source sequences.
ChildReversed(bs, names, i, n) ==
  [sets |-> [s \in FileSetNames |->
               IF bs.sets[s].present /\ \E k \in 1..Len(names) : SetName(names[k]) = s
                 THEN [bs.sets[s] EXCEPT !.files = <<bs.sets[s].files[n + 1 - i]>>]
                 ELSE Absent],
   lineage |-> ChildLineage("source", names)]

\* Child i of n of a partition: for each requested name present on the
\* source the singleton of element i, no entry for any other name.
Child(bs, names, i, n) ==
  [sets |-> [s \in FileSetNames |->
               IF bs.sets[s].present /\ \E k \in 1..Len(names) : SetName(names[k]) = s
                 THEN [bs.sets[s] EXCEPT !.files = <<bs.sets[s].files[i]>>]
                 ELSE Absent],
   lineage |-> ChildLineage("source", names)]

\* Partitioning that takes the shortest length when the lengths differ.
PartiteShortest(bs, names) ==
  LET taken == {SetName(names[k]) : k \in 1..Len(names)}
      present == {s \in taken : bs.sets[s].present}
      lengths == {Len(bs.sets[s].files) : s \in present}
      n == IF lengths = {} THEN 0 ELSE CHOOSE l \in lengths : \A m \in lengths : l <= m
  IN [kind |-> "children", children |-> [i \in 1..n |-> Child(bs, names, i, n)]]

\* Partitioning of BuildSet bs on the requested names: a structural mismatch
\* if a name without the optional marker is absent or the sets taken differ
\* in length, else the children in index order.
Partite(bs, names) ==
  LET taken == {SetName(names[k]) : k \in 1..Len(names)}
      missing == {k \in 1..Len(names) :
                    ~Optional(names[k]) /\ ~bs.sets[SetName(names[k])].present}
      present == {s \in taken : bs.sets[s].present}
      lengths == {Len(bs.sets[s].files) : s \in present}
      n == IF lengths = {} THEN 0 ELSE CHOOSE l \in lengths : TRUE
  IN IF missing # {} \/ Cardinality(lengths) > 1
       THEN [kind |-> "StructuralMismatch", children |-> <<>>]
       ELSE [kind |-> "children", children |-> [i \in 1..n |-> Child(bs, names, i, n)]]

\* A script partitions the BuildSet on the requested names.
PartiteCall(names) ==
  /\ bset.exists
  /\ parts = NoParts
  /\ requested' = names
  /\ parts' = Partite(bset, names)
  /\ UNCHANGED <<bset, graphVars, sessionVars, keyVars, opVars, persistVars, extVars>>

\* The lists of names a script requests: one or two names, each with or
\* without the optional marker.
RequestNames == {<<"a">>, <<"b">>, <<"a", "?">>, <<"b", "?">>}
Requests == {<<n>> : n \in RequestNames} \cup (RequestNames \X RequestNames)

InitPartite ==
  /\ deps = [t \in Targets |-> <<>>]
  /\ orArg = [t \in Targets |-> [x \in Targets |-> "unset"]]
  /\ ret = NoRet
  /\ result = NoResult
  /\ NoProperties
  /\ NoSession
  /\ NoApi

NextPartite ==
  \/ \E a \in FilesArgs(<<"a">>), b \in FilesArgs(<<"b">>) :
       \/ NewBuildSet(OneSet(<<"a">>, a), OneSet(<<"b">>, b))
       \/ NewBuildSet(OneSet(<<"a">>, a), NoFiles)
       \/ NewBuildSet(NoFiles, OneSet(<<"b">>, b))
  \/ \E names \in Requests : PartiteCall(names)

SpecPartite == InitPartite /\ [][NextPartite]_vars

\* --------------------------------------------------- claims C12, C13, C14

\* The file-set of the source BuildSet that the k-th requested name stands for.
RequestedSet(k) == bset.sets[SetName(requested[k])]

\* C12: partitioning on required names whose sequences all have length N
\* gives N children in index order; child i holds, for each requested name,
\* the singleton of element i of that name's sequence.
C12_PartitionChildren ==
  (/\ requested # <<>>
   /\ \A k \in 1..Len(requested) : ~Optional(requested[k]) /\ RequestedSet(k).present
   /\ \A k \in 1..Len(requested) : Len(RequestedSet(k).files) = Len(RequestedSet(1).files))
  => /\ parts.kind = "children"
     /\ Len(parts.children) = Len(RequestedSet(1).files)
     /\ \A i \in 1..Len(parts.children), k \in 1..Len(requested) :
          /\ parts.children[i].sets[requested[k]].present
          /\ parts.children[i].sets[requested[k]].files = <<RequestedSet(k).files[i]>>

\* a = [x1, x2, x3], b = [y1, y2, y3] partitioned on (a, b): the second of
\* three children has a = [x2], b = [y2].
C12_Witness ==
  /\ requested = <<<<"a">>, <<"b">>>>
  /\ Len(bset.sets[<<"a">>].files) = 3 /\ Len(bset.sets[<<"b">>].files) = 3
  /\ Len(parts.children) = 3
  /\ parts.children[2].sets[<<"a">>].files = <<Path(<<"a">>, 2)>>
  /\ parts.children[2].sets[<<"b">>].files = <<Path(<<"b">>, 2)>>

\* C13: every child of a partition has a lineage of length 1 that names the
\* source BuildSet, however many requested names were taken from it.
C13_LineageOnce ==
  \A i \in 1..Len(parts.children) : parts.children[i].lineage = <<"source">>

\* Both requested names were taken from the source and children exist.
C13_Witness ==
  /\ requested = <<<<"a">>, <<"b">>>>
  /\ Len(parts.children) = 2
  /\ parts.children[1].sets[<<"a">>].present /\ parts.children[1].sets[<<"b">>].present
  /\ parts.children[2].lineage = <<"source">>

\* C14: partitioning fails with a structural mismatch and no children when
\* two required file-sets differ in length or a required file-set is absent;
\* with (a, b?) and b absent it gives the children of a without a b entry.
C14_PartitionMismatch ==
  LET required == {k \in 1..Len(requested) : ~Optional(requested[k])} IN
  /\ ((\E k \in required : ~RequestedSet(k).present)
        \/ (\E k \in required, l \in required :
              /\ RequestedSet(k).present /\ RequestedSet(l).present
              /\ Len(RequestedSet(k).files) # Len(RequestedSet(l).files)))
       => (parts.kind = "StructuralMismatch" /\ parts.children = <<>>)
  /\ (requested = <<<<"a">>, <<"b", "?">>>>
        /\ bset.sets[<<"a">>].present /\ ~bset.sets[<<"b">>].present)
       => /\ parts.kind = "children"
          /\ Len(parts.children) = Len(bset.sets[<<"a">>].files)
          /\ \A i \in 1..Len(parts.children) :
               /\ ~parts.children[i].sets[<<"b">>].present
               /\ parts.children[i].sets[<<"a">>].files = <<bset.sets[<<"a">>].files[i]>>

\* Sets of length 3 and 4 were partitioned on (a, b).
C14_Witness ==
  /\ requested = <<<<"a">>, <<"b">>>>
  /\ Len(bset.sets[<<"a">>].files) = 3 /\ Len(bset.sets[<<"b">>].files) = 4
  /\ parts.kind = "StructuralMismatch"

\* ---------------------------------------------------------- graph persistence

\* Build variants, and the main module of a session (<<>> for None).
Variants == {<<"debug">>, <<"release">>}
MainModules == {<<>>, <<"a">>}

\* The Targets of the sessions that are saved: a@x and a@y, with their
\* Dependency edges (by Target), and on a@x the Operators with two BuildSets
\* each, the second derived from the first.
DepsOfX == {<<>>, <<Dependency(2, FALSE)>>, <<Dependency(2, TRUE)>>,
            <<Dependency(2, TRUE), Dependency(1, FALSE)>>}
DepsOfY == {<<>>, <<Dependency(1, TRUE)>>}
SavedOperator(name) ==
  [name |-> name,
   build_sets |-> <<[files |-> <<Path(name, 1)>>, lineage |-> <<>>],
                    [files |-> <<Path(name, 2), Path(name, 3)>>, lineage |-> <<1>>]>>]
OperatorsOfX ==
  {<<>>, <<SavedOperator(<<"c", "#", "1">>)>>,
   <<SavedOperator(<<"c", "#", "1">>), SavedOperator(<<"l", "#", "1">>)>>,
   <<SavedOperator(<<"l", "#", "1">>), SavedOperator(<<"c", "#", "1">>)>>}

SavedTargets(dx, dy, ops) ==
  <<[id |-> FormatId(<<"a">>, <<"x">>), dependencies |-> dx, operators |-> ops],
    [id |-> FormatId(<<"a">>, <<"y">>), dependencies |-> dy, operators |-> <<>>]>>

\* 'craftr_graph.{}.json'.format(build_variant)
GraphFilename(build_variant) == <<"craftr_graph.">> \o build_variant \o <<".json">>

\* Master.to_json(): every Target in order, a Dependency by the id of its
\* Target, the Operators and their BuildSets in order.
MasterToJson(targets) ==
  [i \in 1..Len(targets) |->
     [id |-> targets[i].id,
      dependencies |-> [k \in 1..Len(targets[i].dependencies) |->
                          [target |-> targets[targets[i].dependencies[k].target].id,
                           public |-> targets[i].dependencies[k].public]],
      operators |-> targets[i].operators]]

\* The places of the Targets of a dump that have the id.
TargetsWithId(data, id) == {j \in 1..Len(data) : data[j].id = id}

\* Master.load_json(data): the Targets rebuilt in order, every Dependency
\* resolved to the Target with its id; ok is FALSE if an id is not in the dump.
MasterLoadJson(data) ==
  LET resolved == \A i \in 1..Len(data) : \A k \in 1..Len(data[i].dependencies) :
                    TargetsWithId(data, data[i].dependencies[k].target) # {}
  IN [ok |-> resolved,
      targets |->
        IF ~resolved THEN <<>>
        ELSE [i \in 1..Len(data) |->
                [id |-> data[i].id,
                 dependencies |-> [k \in 1..Len(data[i].dependencies) |->
                    Dependency(CHOOSE j \in TargetsWithId(data, data[i].dependencies[k].target) :
                                 \A l \in TargetsWithId(data, data[i].dependencies[k].target) :
                                   j <= l,
                               data[i].dependencies[k].public)],
                 operators |-> data[i].operators]]]

\* Session.to_json()
SessionToJson(session) ==
  [kind |-> "json", filename |-> <<>>, variant |-> session.variant,
   main_module |-> session.main_module, data |-> MasterToJson(session.targets)]

\* Session.load_json that leaves the variant of the loading session.
SessionLoadJsonKeepVariant(session, json) ==
  LET data == MasterLoadJson(json.data) IN
  [kind |-> IF data.ok THEN "session" ELSE "LoadError",
   variant |-> session.variant, main_module |-> json.main_module, targets |-> data.targets]

\* Session.load_json(data) on a session
SessionLoadJson(session, json) ==
  LET data == MasterLoadJson(json.data) IN
  [kind |-> IF data.ok THEN "session" ELSE "LoadError",
   variant |-> json.variant, main_module |-> json.main_module, targets |-> data.targets]

\* A driver calls session.to_json().
ToJsonCall ==
  /\ dump = NoDump
  /\ dump' = SessionToJson(master)
  /\ UNCHANGED <<master, loaded, graphVars, sessionVars, keyVars, opVars, partVars, extVars>>

\* A driver calls session.save(): the dump goes to the session's graph file.
SaveCall ==
  /\ dump = NoDump
  /\ dump' = [SessionToJson(master) EXCEPT !.kind = "file",
                                           !.filename = GraphFilename(master.variant)]
  /\ UNCHANGED <<master, loaded, graphVars, sessionVars, keyVars, opVars, partVars, extVars>>

\* A driver calls load_json(dump) on a fresh session of some variant.
LoadJsonCall(build_variant) ==
  /\ dump.kind = "json"
  /\ loaded = NoLoaded
  /\ loaded' = SessionLoadJson(FreshSession(build_variant), dump)
  /\ UNCHANGED <<master, dump, graphVars, sessionVars, keyVars, opVars, partVars, extVars>>

\* A driver calls load() on a fresh session of some variant: its graph file
\* is read if there is one.
LoadCall(build_variant) ==
  /\ dump.kind = "file"
  /\ loaded = NoLoaded
  /\ loaded' = IF dump.filename = GraphFilename(build_variant)
                 THEN SessionLoadJson(FreshSession(build_variant), dump)
                 ELSE [FreshSession(build_variant) EXCEPT !.kind = "FileMissing"]
  /\ UNCHANGED <<master, dump, graphVars, sessionVars, keyVars, opVars, partVars, extVars>>

InitPersist ==
  /\ deps = [t \in Targets |-> <<>>]
  /\ orArg = [t \in Targets |-> [x \in Targets |-> "unset"]]
  /\ ret = NoRet
  /\ result = NoResult
  /\ NoProperties
  /\ NoSession
  /\ NoKeys
  /\ NoOps
  /\ NoPartite
  /\ \E v \in Variants, mm \in MainModules, dx \in DepsOfX, dy \in DepsOfY,
        ops \in OperatorsOfX :
       master = [kind |-> "session", variant |-> v, main_module |-> mm,
                 targets |-> SavedTargets(dx, dy, ops)]
  /\ dump = NoDump
  /\ loaded = NoLoaded
  /\ NoExt

NextPersist ==
  \/ ToJsonCall
  \/ SaveCall
  \/ \E v \in Variants : LoadJsonCall(v)
  \/ \E v \in Variants : LoadCall(v)

SpecPersist == InitPersist /\ [][NextPersist]_vars

\* -------------------------------------------------------------- claim C11

\* C11: to_json() followed by load_json() of the dump into a fresh session
\* gives the same build variant, the same main module and the same Targets:
\* ids, Dependency edges with their flags, Operators in order, file-sets.
C11_PersistenceRoundTrip ==
  loaded.kind \notin {"none", "FileMissing"} =>
    /\ loaded.kind = "session"
    /\ loaded.variant = master.variant
    /\ loaded.main_module = master.main_module
    /\ Len(loaded.targets) = Len(master.targets)
    /\ \A i \in 1..Len(master.targets) :
         /\ loaded.targets[i].id = master.targets[i].id
         /\ loaded.targets[i].dependencies = master.targets[i].dependencies
         /\ loaded.targets[i].operators = master.targets[i].operators

\* A release session with main module a, one public and one private edge
\* and two Operators was loaded from its dump into a fresh session.
C11_Witness ==
  /\ loaded.kind = "session"
  /\ dump.kind = "json"
  /\ master.variant = <<"release">> /\ master.main_module = <<"a">>
  /\ loaded.variant = <<"release">> /\ loaded.main_module = <<"a">>
  /\ loaded.targets[1].dependencies = <<Dependency(2, TRUE), Dependency(1, FALSE)>>
  /\ Len(loaded.targets[1].operators) = 2
  /\ loaded.targets[1].operators[1].name = <<"l", "#", "1">>
  /\ Len(loaded.targets[1].operators[1].build_sets) = 2

\* ------------------------------------------------------------- depends()

\* The Targets a script passes to depends() and the most Dependency objects
\* it makes.
NumDependsTargets == 2
MaxDependsEdges == 2
DependsTargets == 1..NumDependsTargets

\* session.targets: the Targets of scope a by id, a@t1, a@t2, ...
DependsScope == <<"a">>
DependsId(t) == FormatId(DependsScope, <<"t">> \o Str(t))
SessionTargets(id) == CHOOSE t \in DependsTargets : DependsId(t) = id

\* What a script passes as `target`: a Target, a str, a value that is
\* neither, or a list of those.
ATarget(t) == [shape |-> "Target", target |-> t, str |-> <<>>, elems |-> <<>>]
AStr(s) == [shape |-> "str", target |-> 0, str |-> s, elems |-> <<>>]
NotATarget == [shape |-> "int", target |-> 0, str |-> <<>>, elems |-> <<>>]
AList(l) == [shape |-> "list", target |-> 0, str |-> <<>>, elems |-> l]

\* str.partition(':')[::2]
RECURSIVE Find(_, _, _)
Find(s, c, i) == IF i > Len(s) THEN 0 ELSE IF s[i] = c THEN i ELSE Find(s, c, i + 1)
Partition(s) ==
  LET i == Find(s, ":", 1) IN
  IF i = 0 THEN [scope |-> s, name |-> <<>>]
  ELSE [scope |-> SubSeq(s, 1, i - 1), name |-> SubSeq(s, i + 1, Len(s))]

\* Target.add_dependency(target, public, do_raise) on a Target whose list is
\* l: the list afterwards and what the call returns or raises; `named` is
\* the Target whose id the error message holds.
TargetAddDependency(l, arg, public, do_raise) ==
  IF arg.shape # "Target"
    THEN [list |-> l, kind |-> "TypeError", named |-> 0, idx |-> 0]
    ELSE LET i == AddDependencyRet(l, arg.target, public, do_raise) IN
         [list |-> AddDependencyList(l, arg.target, public, do_raise),
          kind |-> IF i = 0 THEN "RuntimeError" ELSE "dep",
          named |-> IF i = 0 THEN arg.target ELSE 0,
          idx |-> i]

\* depends(target, public, to) for a target that is no list; cur is the
\* current target of the current scope and 0 stands for None.
DependsOne(d, cur, arg, public, to) ==
  LET target == IF arg.shape = "str"
                  THEN LET sn == Partition(arg.str)
                           scope == IF sn.scope = <<>> THEN DependsScope ELSE sn.scope
                       IN ATarget(SessionTargets(FormatId(scope, sn.name)))
                  ELSE arg
      dest == IF to # 0 THEN to ELSE cur
  IN IF dest = 0 THEN [deps |-> d, kind |-> "RuntimeError"]
     ELSE LET r == TargetAddDependency(d[dest], target, public, FALSE)
          IN [deps |-> [d EXCEPT ![dest] = r.list], kind |-> r.kind]

\* [depends(x, public) for x in target]: from element i on; the first
\* element that raises ends the call.
RECURSIVE DependsEach(_, _, _, _, _)
DependsEach(d, cur, elems, public, i) ==
  IF i > Len(elems) THEN [deps |-> d, kind |-> "None"]
  ELSE LET r == DependsOne(d, cur, elems[i], public, 0) IN
       IF r.kind # "dep" THEN r
       ELSE DependsEach(r.deps, cur, elems, public, i + 1)

\* depends(target, public, to)
Depends(d, cur, arg, public, to) ==
  IF arg.shape = "list" THEN DependsEach(d, cur, arg.elems, public, 1)
  ELSE DependsOne(d, cur, arg, public, to)

\* The values scripts pass as `target`.
DependsElems == {ATarget(t) : t \in DependsTargets} \cup {NotATarget}
DependsArgs ==
  DependsElems \cup {AStr(<<":", "t", "2">>),
                     AList(<<ATarget(1), ATarget(2)>>),
                     AList(<<AStr(<<"a", ":", "t", "1">>), ATarget(2)>>),
                     AList(<<ATarget(2), NotATarget>>)}

\* The Targets the elements of an argument stand for, 0 for none.
ArgTargets(arg) ==
  LET one(a) == IF a.shape = "Target" THEN a.target
                ELSE IF a.shape = "str"
                  THEN LET sn == Partition(a.str) IN
                       SessionTargets(FormatId(IF sn.scope = <<>> THEN DependsScope
                                               ELSE sn.scope, sn.name))
                ELSE 0
  IN IF arg.shape = "list" THEN [i \in 1..Len(arg.elems) |-> one(arg.elems[i])]
     ELSE <<one(arg)>>

\* bind_target(target) in scope a; 0 stands for None.
DependsBindTarget(target) ==
  /\ boundTarget # target
  /\ boundTarget' = target
  /\ UNCHANGED <<prevDeps, dependsRet, graphVars, sessionVars, keyVars, opVars,
                 partVars, persistVars, finRet, ctxRet>>

\* A script calls depends(target, public, to).
DependsCall(arg, public, to) ==
  LET r == Depends(deps, boundTarget, arg, public, to) IN
  /\ EdgeCount(r.deps, NumTargets) <= MaxDependsEdges
  /\ deps' = r.deps
  /\ prevDeps' = deps
  /\ dependsRet' = [kind |-> r.kind, shape |-> arg.shape, to |-> to,
                    elems |-> ArgTargets(arg), public |-> public, do_raise |-> FALSE,
                    message |-> <<>>]
  /\ UNCHANGED <<boundTarget, orArg, ret, result, properties, public_properties,
                 sessionVars, keyVars, opVars, partVars, persistVars, finRet, ctxRet>>

\* A script calls self.add_dependency(target, public, do_raise).
TargetAddDependencyCall(self, arg, public, do_raise) ==
  LET r == TargetAddDependency(deps[self], arg, public, do_raise) IN
  /\ EdgeCount([deps EXCEPT ![self] = r.list], NumTargets) <= MaxDependsEdges
  /\ deps' = [deps EXCEPT ![self] = r.list]
  /\ prevDeps' = deps
  /\ dependsRet' = [kind |-> r.kind, shape |-> "add_dependency", to |-> self,
                    elems |-> ArgTargets(arg), public |-> public,
                    do_raise |-> do_raise,
                    message |-> IF r.named = 0 THEN <<>> ELSE DependsId(r.named)]
  /\ UNCHANGED <<boundTarget, orArg, ret, result, properties, public_properties,
                 sessionVars, keyVars, opVars, partVars, persistVars, finRet, ctxRet>>

InitDepends ==
  /\ deps = [t \in Targets |-> <<>>]
  /\ orArg = [t \in Targets |-> [x \in Targets |-> "unset"]]
  /\ ret = NoRet
  /\ result = NoResult
  /\ NoProperties
  /\ NoSession
  /\ NoApi

NextDepends ==
  \/ \E target \in 0..NumDependsTargets : DependsBindTarget(target)
  \/ \E arg \in DependsArgs, public \in BOOLEAN, to \in 0..NumDependsTargets :
       DependsCall(arg, public, to)
  \/ \E self \in DependsTargets, arg \in DependsElems,
        public \in BOOLEAN, do_raise \in BOOLEAN :
       TargetAddDependencyCall(self, arg, public, do_raise)

SpecDepends == InitDepends /\ [][NextDepends]_vars

\* -------------------------------------------------------------- claim C21

\* The Targets a depends() call was given, as a set.
GivenTargets == {dependsRet.elems[i] : i \in 1..Len(dependsRet.elems)}

\* C21: a depends(target, public, to=T) call that returns has made every
\* given Target, one or a list, a dependency of T, and has left the list of
\* every other Target, the current target's included, as it was.
C21_DependsAddsToGivenTarget ==
  (dependsRet.kind \in {"dep", "None"} /\ dependsRet.to # 0
     /\ dependsRet.shape \in {"Target", "str", "list"}) =>
    /\ \A x \in GivenTargets : HasEdge(deps, dependsRet.to, x)
    /\ \A t \in Targets : t # dependsRet.to => deps[t] = prevDeps[t]

\* -------------------------------------------------------------- claim C22

\* C22: add_dependency(x, public, do_raise=True) for an x the Target already
\* depends on raises an error that names the id of x and leaves the list as
\* it was, flag of the existing Dependency included; for a value that is no
\* Target the call raises TypeError and adds no Dependency.
C22_StrictAddRaises ==
  dependsRet.shape = "add_dependency" =>
    /\ (dependsRet.elems[1] # 0 /\ dependsRet.do_raise
          /\ HasEdge(prevDeps, dependsRet.to, dependsRet.elems[1])) =>
         /\ dependsRet.kind = "RuntimeError"
         /\ dependsRet.message = DependsId(dependsRet.elems[1])
         /\ deps = prevDeps
    /\ dependsRet.elems[1] = 0 =>
         /\ dependsRet.kind = "TypeError"
         /\ deps = prevDeps

\* A private Dependency was added again as public with do_raise=True.
C22_Witness ==
  /\ dependsRet.shape = "add_dependency"
  /\ dependsRet.kind = "RuntimeError"
  /\ dependsRet.public
  /\ dependsRet.to = 1 /\ dependsRet.elems = <<2>>
  /\ deps[1] = <<Dependency(2, FALSE)>>

\* ------------------------------------------- finalizers and the scope stack

\* What the finalizer of a Target does: nothing ("plain"), raise, call
\* bind_target() for another Target or None, or call target('y').
FinalizerKinds == {"plain", "fails", "binds", "creates"}

\* scope.current_target of the current scope, 0 for None or no scope.
Binding(scopes) ==
  IF SessionCurrentScope = 0 THEN 0 ELSE scopes[SessionCurrentScope].current_target

\* The session as a finalize_target() or target() call finds it.
Session == [scopeObjs |-> scopeObjs, targetObjs |-> targetObjs, graph |-> graph,
            raised |-> "none", ran |-> FALSE, during |-> 0]

\* session.add_target(Target(name, scope)) and bind_target(t) in the
\* current scope, for a Target with the finalizer `kind`.
CreateTarget(st, name, kind) ==
  LET scope == SessionCurrentScope
      t == Len(st.targetObjs) + 1
      id == FormatId(st.scopeObjs[scope].name, name)
      new == [id |-> id, name |-> name, scope |-> scope,
              nfin |-> 1, finalized |-> FALSE, fin |-> kind]
      added == [st.scopeObjs EXCEPT ![scope].targets[name] = t]
  IN IF id \in {st.targetObjs[u].id : u \in st.graph}
       THEN [st EXCEPT !.scopeObjs = added, !.targetObjs = Append(@, new),
                       !.raised = "ValueError"]
       ELSE [st EXCEPT !.scopeObjs = BindTarget(added, t), !.targetObjs = Append(@, new),
                       !.graph = @ \cup {t}]

\* for x in target.finalizers: x(), with Target t bound.
RunFinalizers(st, t) ==
  LET kind == st.targetObjs[t].fin IN
  IF kind = "fails" THEN [st EXCEPT !.raised = "Exception"]
  ELSE IF kind = "binds"
    THEN [st EXCEPT !.scopeObjs = BindTarget(@, IF t = 1 THEN 0 ELSE 1)]
  ELSE IF kind = "creates" THEN CreateTarget(st, <<"y">>, "plain")
  ELSE st

\* The end of finalize_target that restores the binding only if no
\* finalizer failed.
FinallyBindUnlessFailed(scopes, prev_target, failed) ==
  IF failed THEN scopes ELSE BindTarget(scopes, prev_target)

\* finally: bind_target(prev_target)
FinallyBind(scopes, prev_target, failed) == BindTarget(scopes, prev_target)

\* finalize_target(target), target = 0 for None, with the finalizers run.
FinalizeRun(target) ==
  LET t == IF target = 0 THEN CurrentTarget(FALSE).val ELSE target IN
  IF t = 0 THEN Session
  ELSE IF targetObjs[t].finalized THEN Session
  ELSE LET marked == [targetObjs EXCEPT ![t].finalized = TRUE] IN
    IF CurrentTarget(TRUE).raises
      THEN [Session EXCEPT !.targetObjs = marked, !.raised = "RuntimeError"]
      ELSE LET prev_target == CurrentTarget(TRUE).val
               bound == BindTarget(scopeObjs, t)
               r == RunFinalizers([Session EXCEPT !.targetObjs = marked,
                                                  !.scopeObjs = bound,
                                                  !.ran = TRUE,
                                                  !.during = Binding(bound)], t)
           IN [r EXCEPT !.scopeObjs = FinallyBind(@, prev_target, r.raised # "none")]

\* with session.enter_scope(name, version, directory): the block is entered.
FinEnterScope(name, version) ==
  /\ Len(scopeObjs) < MaxScopes
  /\ scopeObjs' = Append(scopeObjs,
       [name |-> name, version |-> version, current_target |-> 0,
        targets |-> [n \in TargetNames |-> 0]])
  /\ current_scopes' = Append(current_scopes, Len(scopeObjs) + 1)
  /\ blocks' = Append(blocks, [kind |-> "scope", scope |-> Len(scopeObjs) + 1,
                               target |-> 0, prev |-> 0])
  /\ raised' = "none"
  /\ finRet' = NoFinRet
  /\ UNCHANGED <<targetObjs, graph, runs, calls, graphVars, keyVars, opVars, partVars,
                 persistVars, dependsVars, ctxRet>>

\* target(name) followed by t.finalizers.append(..) for a finalizer of the
\* kind: finalize_target(), then the new Target is added and bound.
FinTargetCall(name, kind) ==
  LET f == FinalizeRun(0)
      r == IF f.raised # "none" THEN f
           ELSE IF CurrentScope(TRUE).raises THEN [f EXCEPT !.raised = "RuntimeError"]
           ELSE CreateTarget(f, name, kind)
  IN
  /\ Len(r.targetObjs) <= MaxTargetObjs
  /\ scopeObjs' = r.scopeObjs
  /\ targetObjs' = r.targetObjs
  /\ graph' = r.graph
  /\ raised' = r.raised
  /\ finRet' = NoFinRet
  /\ UNCHANGED <<current_scopes, blocks, runs, calls, graphVars, keyVars, opVars, partVars,
                 persistVars, dependsVars, ctxRet>>

\* bind_target(target), 0 for None.
FinBindTarget(target) ==
  /\ target <= Len(targetObjs)
  /\ IF SessionCurrentScope = 0
       THEN raised' = "AttributeError" /\ UNCHANGED scopeObjs
       ELSE raised' = "none" /\ scopeObjs' = BindTarget(scopeObjs, target)
  /\ finRet' = NoFinRet
  /\ UNCHANGED <<current_scopes, targetObjs, graph, blocks, runs, calls, graphVars, keyVars,
                 opVars, partVars, persistVars, dependsVars, ctxRet>>

\* A script calls finalize_target(target), 0 for no argument.
FinalizeStep(target) ==
  LET r == FinalizeRun(target) IN
  /\ target <= Len(targetObjs)
  /\ Len(r.targetObjs) <= MaxTargetObjs
  /\ scopeObjs' = r.scopeObjs
  /\ targetObjs' = r.targetObjs
  /\ graph' = r.graph
  /\ raised' = r.raised
  /\ finRet' = [kind |-> IF r.raised = "none" THEN "returned" ELSE "raised",
                target |-> IF target = 0 THEN CurrentTarget(FALSE).val ELSE target,
                prev |-> Binding(scopeObjs), during |-> r.during,
                after |-> Binding(r.scopeObjs), ran |-> r.ran]
  /\ UNCHANGED <<current_scopes, blocks, runs, calls, graphVars, keyVars, opVars, partVars,
                 persistVars, dependsVars, ctxRet>>

\* The enter_scope() block is left, by the end of its body or by a failure
\* in it: finalize_target(), then the pop, which a failing finalize_target()
\* does not reach.
FinExitScope(body_fails) ==
  LET r == FinalizeRun(0)
      top == current_scopes[Len(current_scopes)]
  IN
  /\ blocks # <<>>
  /\ Len(r.targetObjs) <= MaxTargetObjs
  /\ scopeObjs' = r.scopeObjs
  /\ targetObjs' = r.targetObjs
  /\ graph' = r.graph
  /\ blocks' = SubSeq(blocks, 1, Len(blocks) - 1)
  /\ IF r.raised # "none"
       THEN raised' = r.raised /\ UNCHANGED current_scopes
       ELSE /\ current_scopes' = SubSeq(current_scopes, 1, Len(current_scopes) - 1)
            /\ raised' = IF top # blocks[Len(blocks)].scope THEN "AssertionError"
                         ELSE IF body_fails THEN "Exception" ELSE "none"
  /\ finRet' = NoFinRet
  /\ UNCHANGED <<runs, calls, graphVars, keyVars, opVars, partVars, persistVars, dependsVars, ctxRet>>

NextFinalize ==
  \/ FinEnterScope(DependsScope, Version)
  \/ \E name \in TargetNames, kind \in FinalizerKinds : FinTargetCall(name, kind)
  \/ \E target \in 0..MaxTargetObjs : FinBindTarget(target)
  \/ \E target \in 0..MaxTargetObjs : FinalizeStep(target)
  \/ \E body_fails \in BOOLEAN : FinExitScope(body_fails)

SpecFinalize == Init /\ [][NextFinalize]_vars

\* -------------------------------------------------------------- claim C23

\* C23: after a finalize_target() call, returned or raised, the current
\* scope's current target is the one bound before the call, and the
\* finalizers that ran found the Target being finalized bound.
C23_BindingRestored ==
  finRet.kind # "none" =>
    /\ finRet.after = finRet.prev
    /\ finRet.ran => finRet.during = finRet.target

\* finalize_target(t) raised the failure of a finalizer of a Target t while
\* another Target was bound, and that Target is bound again.
C23_Witness ==
  /\ finRet.kind = "raised" /\ finRet.ran
  /\ finRet.prev # 0 /\ finRet.prev # finRet.target
  /\ finRet.after = finRet.prev

\* -------------------------------------------------------------- claim C26

\* C26: the scopes of session._current_scopes are those of the enter_scope()
\* blocks that have not been left, in the order entered: a block that is
\* left, normally, by a failure in its body or by a failing finalizer, took
\* its scope off, and session.current_scope is that of the enclosing block.
C26_ScopeStackLifo ==
  /\ Len(current_scopes) = Len(blocks)
  /\ \A i \in 1..Len(blocks) : current_scopes[i] = blocks[i].scope

\* ------------------------------------------------- the current context

\* current_scope(do_raise), current_target(do_raise) and
\* current_operator(do_raise): whether the call raises, with what message,
\* and the Scope, Target or Operator it returns (0 and NoOperator for None).
Accessor(which, do_raise) ==
  LET scope == CurrentScope(do_raise)
      target == CurrentTarget(do_raise)
      operator == IF target.val = 0 THEN NoOperator ELSE current_operator[target.val]
      scope_message == IF SessionCurrentScope = 0 THEN "no current scope"
                       ELSE "current scope has no name/version"
      none == [scope |-> 0, target |-> 0, operator |-> NoOperator]
  IN IF which = "current_scope"
       THEN [raises |-> scope.raises,
             message |-> IF scope.raises THEN scope_message ELSE "",
             val |-> [none EXCEPT !.scope = scope.val]]
     ELSE IF which = "current_target"
       THEN [raises |-> target.raises,
             message |-> IF scope.raises THEN scope_message
                         ELSE IF target.raises THEN "no current target" ELSE "",
             val |-> [none EXCEPT !.target = target.val]]
     ELSE [raises |-> target.raises \/ (do_raise /\ operator = NoOperator),
           message |-> IF scope.raises THEN scope_message
                       ELSE IF target.raises THEN "no current target"
                       ELSE IF do_raise /\ operator = NoOperator THEN "no current operator"
                       ELSE "",
           val |-> [none EXCEPT !.operator = operator]]

\* What a call found and did: the scope on top of the stack, whether it has
\* a name and a version, the Target bound in it and that Target's Operator.
ContextCall(call, do_raise, a, created) ==
  LET scope == SessionCurrentScope
      target == IF scope = 0 THEN 0 ELSE scopeObjs[scope].current_target
  IN [call |-> call, do_raise |-> do_raise, raises |-> a.raises, message |-> a.message,
      none |-> a.val = [scope |-> 0, target |-> 0, operator |-> NoOperator],
      scope |-> scope,
      named |-> scope # 0 /\ scopeObjs[scope].name # NoName
                          /\ scopeObjs[scope].version # NoName,
      target |-> target,
      operator |-> IF target = 0 THEN NoOperator ELSE current_operator[target],
      created |-> created]

\* A script calls current_scope(), current_target() or current_operator().
AccessorCall(which, do_raise) ==
  /\ ctxRet' = ContextCall(which, do_raise, Accessor(which, do_raise), FALSE)
  /\ UNCHANGED <<graphVars, sessionVars, keyVars, opVars, partVars, persistVars,
                 dependsVars, finRet>>

\* A script calls build_set({}, {}) without an operator argument.
BuildSetCall ==
  LET operator == Accessor("current_operator", TRUE) IN
  /\ ~bset.exists
  /\ bset' = IF operator.raises THEN bset ELSE BuildSetInit(NoFiles, NoFiles)
  /\ ctxRet' = ContextCall("build_set", TRUE, operator, ~operator.raises)
  /\ UNCHANGED <<requested, parts, graphVars, sessionVars, keyVars, opVars, persistVars,
                 dependsVars, finRet>>

NextContext ==
  \/ EnterScope(NoName, NoName)
  \/ ExitScope
  \/ \E target \in 0..MaxTargetObjs : FinBindTarget(target)
  \/ OperatorCall(<<"c">>, 0, "None")
  \/ \E which \in {"current_scope", "current_target", "current_operator"},
        do_raise \in BOOLEAN : AccessorCall(which, do_raise)
  \/ BuildSetCall

SpecContext == InitOps /\ [][NextContext]_vars

\* -------------------------------------------------------------- claim C24

\* The message that names the first context a call found missing.
MissingContext ==
  IF ctxRet.scope = 0 THEN "no current scope"
  ELSE IF ~ctxRet.named THEN "current scope has no name/version"
  ELSE IF ctxRet.target = 0 THEN "no current target"
  ELSE IF ctxRet.operator = NoOperator THEN "no current operator"
  ELSE ""

\* Whether the context the call requires was missing.
RequiredMissing ==
  IF ctxRet.call = "current_scope"
    THEN MissingContext \in {"no current scope", "current scope has no name/version"}
  ELSE IF ctxRet.call = "current_target"
    THEN MissingContext \notin {"", "no current operator"}
  ELSE MissingContext # ""

\* C24: current_scope(), current_target(), current_operator() and
\* build_set() called without the scope, Target or Operator they require
\* raise an error that names the missing context and create nothing when
\* do_raise is True, and return None without failing when it is False.
C24_NoContextFails ==
  (ctxRet.call # "none" /\ RequiredMissing) =>
    IF ctxRet.do_raise
      THEN ctxRet.raises /\ ctxRet.message = MissingContext /\ ~ctxRet.created
           /\ (ctxRet.call = "build_set" => ~bset.exists)
      ELSE ~ctxRet.raises /\ ctxRet.none

\* build_set() was called with a Target bound that has no current Operator.
C24_Witness ==
  /\ ctxRet.call = "build_set"
  /\ ctxRet.raises
  /\ ctxRet.target # 0 /\ ctxRet.named
  /\ ctxRet.operator = NoOperator
  /\ ~bset.exists

\* ------------------------------------------------ get_prop(inherit=False)

\* The `default` argument of get_prop: NotImplemented when the caller
\* passes none, or the caller's value.
NotImplemented == [given |-> FALSE, value |-> <<>>]
Defaults == {NotImplemented, [given |-> TRUE, value |-> <<>>]}

\* get_prop that looks at the private container first.
GetPropPlainPrivateFirst(self, default) ==
  IF properties[self].set THEN properties[self].value
  ELSE IF public_properties[self].set THEN public_properties[self].value
  ELSE IF ~default.given THEN PropDefault
  ELSE default.value

\* Target.get_prop(prop_name, inherit=False, default=default)
GetPropPlain(self, default) ==
  IF public_properties[self].set THEN public_properties[self].value
  ELSE IF properties[self].set THEN properties[self].value
  ELSE IF ~default.given THEN PropDefault
  ELSE default.value

\* A script reads self.get_prop(name, default=default).
GetPropPlainCall(self, default) ==
  /\ result = NoResult
  /\ result' = [kind |-> "plain", root |-> self, ok |-> TRUE,
                edges |-> GetPropPlain(self, default), default |-> default]
  /\ UNCHANGED <<deps, orArg, ret, properties, public_properties, sessionVars, apiVars>>

NextPlainProps ==
  \/ \E t \in Targets, public \in BOOLEAN : SetItem(t, public, <<Token(t, public)>>)
  \/ \E self \in Targets, target \in Targets, public \in BOOLEAN :
       DependProp(self, target, public)
  \/ \E self \in Targets, default \in Defaults : GetPropPlainCall(self, default)

SpecPlainProps == InitProps /\ [][NextPlainProps]_vars

\* -------------------------------------------------------------- claim C25

\* C25: get_prop(name, inherit=False) returns the Target's public value if
\* it has one, else its private value, else the default the caller passed,
\* else the schema default, whatever its dependencies export.
C25_GetPropPlain ==
  result.kind = "plain" =>
    result.edges =
      IF public_properties[result.root].set THEN <<Token(result.root, TRUE)>>
      ELSE IF properties[result.root].set THEN <<Token(result.root, FALSE)>>
      ELSE IF result.default.given THEN result.default.value
      ELSE PropDefault

\* A Target with both values set and a public dependency that exports a
\* value was read.
C25_Witness ==
  /\ result.kind = "plain"
  /\ public_properties[result.root].set /\ properties[result.root].set
  /\ \E i \in 1..Len(deps[result.root]) :
       /\ deps[result.root][i].public
       /\ public_properties[deps[result.root][i].target].set
  /\ result.edges = <<Token(result.root, TRUE)>>

====
